---------------------------- MODULE Spec2Model ----------------------------
(***************************************************************************)
(* Home-lighting controller (ESP32 sketch, latest snapshot:                *)
(* src/unnamed/part_001 lines 960-1541).                                   *)
(*                                                                         *)
(* The classes LED, Boton, Potenciometro and SistemaModos are modelled as  *)
(* operators on records, one operator per method, and each class is        *)
(* exercised by a specification of its own that calls its methods in any   *)
(* order with inputs drawn from small sets:                                *)
(*   SpecLED    LED::escribir / setBrillo / encender / apagar / alternar   *)
(*   SpecBoton  Boton::presionado / leer against the millisecond clock     *)
(*   SpecPot    Potenciometro::getModo                                     *)
(*   SpecModos  SistemaModos::cambiarModo / cambiarModoAuto / toggleAuto / *)
(*              toggleForzarEncendido / getBrilloPorModo                   *)
(* The variables `call` and `prev` record the last two method calls (name, *)
(* device, argument, return value, state of the object before the call),   *)
(* so that a property of a call is a predicate on the state after it.      *)
(***************************************************************************)
EXTENDS Integers, Sequences, FiniteSets, TLC

VARIABLES
    leds,       \* LED* leds[8]: each [brillo, encendido, pwm]
    botones,    \* Boton* botones[9]: each [pin, estadoAnterior, ultimoDebounce]
    modos,      \* SistemaModos modos
    millis,     \* the free-running 32-bit millisecond counter, as two 16-bit limbs
    reloj,      \* real milliseconds elapsed since the start of the run (never wraps)
    call,       \* the method call made by the last step (NoCall: none)
    prev,       \* the method call made before it
    aceptados,  \* <<real time of the accepted press before the last, of the last>>
    fase,       \* shape of the levels polled so far on the button under test
    numTrue,    \* number of presionado() calls that returned true so far
    pasos,      \* number of clock advances made so far
    fiesta,     \* the run of manejarModoFiesta() calls being observed
    ciclo,      \* what the last pass of loop() read and did (NoCiclo: none yet)
    enPrueba,   \* the device whose gate a run of SpecVuelta polls ("todos": any)
    arranque,   \* progress of setup(): the registry componentes[] and the
                \* number of iniciar() calls made on each device
    flancoRechazado, \* the button under test rejected a falling edge and its
                \* line has been read LOW in every poll since
    potModos    \* the mode-selection sketch (part_003): ultimoModo of its
                \* Potenciometro and the mode name on its display

vars == <<leds, botones, modos, millis, reloj, call, prev, aceptados, fase, numTrue,
          pasos, fiesta, ciclo, enPrueba, arranque, flancoRechazado, potModos>>

-----------------------------------------------------------------------------
(* Bounds of the model *)

\* number of LED objects the LED specification drives
LedsProbados == 2
\* number of clock advances in one run of the button specification
MaxPasos == 5
\* number of clock advances in one run of the mode-controller specification
MaxPasosModos == 3
\* largest advance of millis() between two reads inside one method
MaxTick == 1

-----------------------------------------------------------------------------
(* Program constants *)

NumLeds == 8
NumBotones == 9
UMBRAL_LDR == 400
HIGH == 1
LOW == 0
\* int is 32 bits on the ESP32
INT_MAX == 2147483647
INT_MIN == (-2147483647) - 1

\* constrain(amt, low, high) of the Arduino core
Constrain(amt, low, high) ==
    IF amt < low THEN low ELSE IF amt > high THEN high ELSE amt

\* map(x, in_min, in_max, out_min, out_max) of the Arduino core, on
\* non-negative operands (integer division truncates)
Map(x, in_min, in_max, out_min, out_max) ==
    ((x - in_min) * (out_max - out_min)) \div (in_max - in_min) + out_min

-----------------------------------------------------------------------------
(* unsigned long: 32-bit values as two 16-bit limbs *)

Base16 == 2 ^ 16

Cero32 == [hi |-> 0, lo |-> 0]

\* a + d modulo 2^32, for 0 <= d < 2^16
Suma32(a, d) ==
    [hi |-> (a.hi + ((a.lo + d) \div Base16)) % Base16, lo |-> (a.lo + d) % Base16]

\* mutant: a subtraction that does not wrap, 0 when a < b
RestaSinVuelta(a, b) ==
    IF a.hi < b.hi \/ (a.hi = b.hi /\ a.lo < b.lo)
    THEN [hi |-> 0, lo |-> 0]
    ELSE [hi |-> a.hi - b.hi - (IF a.lo < b.lo THEN 1 ELSE 0),
          lo |-> (a.lo - b.lo + Base16) % Base16]

\* a - b modulo 2^32 (unsigned subtraction)
Resta32(a, b) ==
    LET borrow == IF a.lo < b.lo THEN 1 ELSE 0
    IN  [hi |-> (a.hi - b.hi - borrow + Base16) % Base16,
         lo |-> (a.lo - b.lo + Base16) % Base16]

\* x > n for an unsigned 32-bit x and 0 <= n < 2^16
Mayor32(x, n) == x.hi > 0 \/ x.lo > n

-----------------------------------------------------------------------------
(* The method-call record *)

NoCall == [name |-> "none", dev |-> 0, arg |-> 0, ret |-> 0, retB |-> FALSE,
           t |-> Cero32, antes |-> 0]

Call(name, dev, arg, ret, retB, t, antes) ==
    [name |-> name, dev |-> dev, arg |-> arg, ret |-> ret, retB |-> retB,
     t |-> t, antes |-> antes]

-----------------------------------------------------------------------------
(* class LED *)

\* LED(int p, String n): brillo(0), encendido(false); the pin is not driven yet
LedNuevo == [brillo |-> 0, encendido |-> FALSE, pwm |-> 0]

\* mutant: the value is stored without constrain()
EscribirSinLimite(l, valor) ==
    [brillo |-> valor, encendido |-> (valor > 0), pwm |-> valor]

\* void escribir(int valor)
Escribir(l, valor) ==
    LET b == Constrain(valor, 0, 255)
    IN  [brillo |-> b, encendido |-> (b > 0), pwm |-> b]

\* mutant: escribir() skips analogWrite() when the level is the one stored
EscribirAnalogWriteSiCambia(l, valor) ==
    IF Constrain(valor, 0, 255) = l.brillo THEN -1 ELSE Constrain(valor, 0, 255)

\* void escribir(int valor): the level its analogWrite(pin, brillo) call
\* writes to the pin (-1 would stand for: no analogWrite() call made)
EscribirAnalogWrite(l, valor) == Constrain(valor, 0, 255)

\* void iniciar() { pinMode(pin, OUTPUT); digitalWrite(pin, LOW); }
LedIniciar(l) == [l EXCEPT !.pwm = 0]

\* int leer()
LedLeer(l) == l.brillo

\* mutant: apagar() forgets to clear the flag it sets after escribir(0)
ApagarSinEstado(l) == [Escribir(l, 0) EXCEPT !.encendido = l.encendido]

\* void encender() { escribir(255); encendido = true; }
Encender(l) == [Escribir(l, 255) EXCEPT !.encendido = TRUE]

\* void apagar() { escribir(0); encendido = false; }
Apagar(l) == [Escribir(l, 0) EXCEPT !.encendido = FALSE]

\* mutant: alternar() tests the brightness against full scale instead of the flag
AlternarPorBrillo(l) == IF l.brillo = 255 THEN Apagar(l) ELSE Encender(l)

\* void alternar() { encendido ? apagar() : encender(); }
Alternar(l) == IF l.encendido THEN Apagar(l) ELSE Encender(l)

\* void setBrillo(int valor) { escribir(valor); }
SetBrillo(l, valor) == Escribir(l, valor)

\* bool estaEncendido()
EstaEncendido(l) == l.encendido

-----------------------------------------------------------------------------
(* State after construction (globals and the objects setup() creates) *)

\* Boton(int p, String n): estadoAnterior(HIGH), ultimoDebounce(0)
BotonNuevo(p) == [pin |-> p, estadoAnterior |-> HIGH, ultimoDebounce |-> Cero32]

\* the pins setup() gives botones[0..8]
PinesBotones == <<4, 26, 27, 14, 2, 12, 25, 33, 32>>

\* SistemaModos()
ModosNuevo ==
    [modoActual |-> 0, autoActivo |-> TRUE, forzarEncendido |-> FALSE,
     ultimoCambioFiesta |-> Cero32, ledFiestaActual |-> 0,
     estadoAutoAnterior |-> FALSE, ultimoCambioLED |-> Cero32]

\* milliseconds setup() spends in PantallaLCD::iniciar() before loop() first runs
TrasSetup == 100 + 5 + 1 + 10 + 1 + 2

\* clock values at which a run starts: right after setup(), and 60 ms before
\* the counter wraps (after 49.7 days of uptime)
RelojesIniciales ==
    {[hi |-> 0, lo |-> TrasSetup], [hi |-> Base16 - 1, lo |-> Base16 - 60]}

\* a run of manejarModoFiesta() calls observed from the moment the chase
\* index is `i`: no call made, no animation step made
FiestaNueva(i) == [inicio |-> i, llamadas |-> 0, hechos |-> 0]

\* no log line printed by the pass
NoLog == [hay |-> FALSE, valorLDR |-> 0, estaOscuro |-> FALSE]

\* no pass of loop() made yet; ultimoLog is loop()'s static local, 0 at start
NoCiclo ==
    [hecho |-> FALSE, modoPot |-> 0, valorLDR |-> 0, p4 |-> FALSE, pulsados |-> {},
     brillo |-> 0, antes |-> [modoActual |-> 0, forzarEncendido |-> FALSE],
     ultimoLog |-> Cero32, log |-> NoLog, muestras |-> <<>>]

\* the devices setup() registers in componentes[], in its order: the eight
\* LEDs, the light sensor, the selector, the display, the nine buttons
RegistroDeSetup ==
    [k \in 1..(NumLeds + 3 + NumBotones) |->
        IF k <= NumLeds THEN <<"led", k - 1>>
        ELSE IF k = NumLeds + 1 THEN <<"ldr", 0>>
        ELSE IF k = NumLeds + 2 THEN <<"pot", 0>>
        ELSE IF k = NumLeds + 3 THEN <<"lcd", 0>>
        ELSE <<"boton", k - NumLeds - 4>>]

\* setup() not yet run: Componente* componentes[30] empty, numComponentes = 0
\* (fase: "crear", "registrar", "iniciar", "listo"; i: index of the
\* for loop that calls componentes[i]->iniciar())
ArranqueNuevo ==
    [fase |-> "crear", componentes |-> <<>>, i |-> 0,
     iniciados |-> [k \in 1..(NumLeds + 3 + NumBotones) |-> 0]]

\* setup() finished
ArranqueHecho ==
    [fase |-> "listo", componentes |-> RegistroDeSetup,
     i |-> NumLeds + 3 + NumBotones,
     iniciados |-> [k \in 1..(NumLeds + 3 + NumBotones) |-> 1]]

\* the mode-selection sketch before its setup(): Potenciometro(35, ...) has
\* ultimoModo(-1) and the display shows nothing
PotModosNuevo == [listo |-> FALSE, ultimoModo |-> -1, pantalla |-> ""]

\* the objects as constructed, with botones[0] on pin p0, the clock at m0
\* and the run polling the device `d`
InitObjetosDe(p0, m0, d, a) ==
    /\ enPrueba = d
    /\ arranque = a
    /\ flancoRechazado = FALSE
    /\ potModos = PotModosNuevo
    /\ leds = [i \in 0..(NumLeds - 1) |-> LedNuevo]
    /\ botones = [i \in 0..(NumBotones - 1) |->
                    BotonNuevo(IF i = 0 THEN p0 ELSE PinesBotones[i + 1])]
    /\ modos = ModosNuevo
    /\ millis = m0
    /\ reloj = 0
    /\ call = NoCall
    /\ prev = NoCall
    /\ aceptados = <<-1, -1>>
    /\ fase = 0
    /\ numTrue = 0
    /\ pasos = 0
    /\ fiesta = FiestaNueva(0)
    /\ ciclo = NoCiclo

\* the objects as constructed, with botones[0] on pin p0 and the clock at m0
InitObjetos(p0, m0) == InitObjetosDe(p0, m0, "todos", ArranqueHecho)

-----------------------------------------------------------------------------
(* SpecLED: the methods of LED called in any order on LedsProbados objects *)

\* values passed to escribir / setBrillo: both ends of the int range and
\* both sides of each end of 0..255
ValoresBrillo == {INT_MIN, -1, 0, 1, 255, 256, INT_MAX}

LedVarsQuietas ==
    UNCHANGED <<botones, modos, millis, reloj, aceptados, fase, numTrue, pasos, fiesta,
                   ciclo, enPrueba, arranque, flancoRechazado, potModos>>

LedLlamada(nombre, i, arg, nuevo, ret) ==
    /\ leds' = [leds EXCEPT ![i] = nuevo]
    /\ call' = Call(nombre, i, arg, ret, nuevo.encendido, Cero32, leds[i])
    /\ prev' = call
    /\ LedVarsQuietas

LedEscribir ==
    \E i \in 0..(LedsProbados - 1), v \in ValoresBrillo :
        LedLlamada("escribir", i, v, Escribir(leds[i], v),
                   EscribirAnalogWrite(leds[i], v))

LedSetBrillo ==
    \E i \in 0..(LedsProbados - 1), v \in ValoresBrillo :
        LedLlamada("setBrillo", i, v, SetBrillo(leds[i], v),
                   EscribirAnalogWrite(leds[i], v))

LedEncender ==
    \E i \in 0..(LedsProbados - 1) :
        LedLlamada("encender", i, 0, Encender(leds[i]), 0)

LedApagar ==
    \E i \in 0..(LedsProbados - 1) :
        LedLlamada("apagar", i, 0, Apagar(leds[i]), 0)

LedAlternar ==
    \E i \in 0..(LedsProbados - 1) :
        LedLlamada("alternar", i, 0, Alternar(leds[i]), 0)

LedLeerLlamada ==
    \E i \in 0..(LedsProbados - 1) :
        LedLlamada("leer", i, 0, leds[i], LedLeer(leds[i]))

NextLED ==
    \/ LedEscribir
    \/ LedSetBrillo
    \/ LedEncender
    \/ LedApagar
    \/ LedAlternar
    \/ LedLeerLlamada

InitLED == InitObjetos(4, [hi |-> 0, lo |-> TrasSetup])

SpecLED == InitLED /\ [][NextLED]_vars

-----------------------------------------------------------------------------
(* Claims about LED *)

\* clamp(v, 0, 255) as the specification states it
Clamp255(v) == IF v <= 0 THEN 0 ELSE IF v >= 255 THEN 255 ELSE v

\* C1: after setBrightness(v) (LED::escribir / setBrillo), for every integer
\* v, the stored brightness is clamp(v, 0, 255) and isOn is (brightness > 0);
\* an out-of-range value is clamped, never rejected.
C1_SetBrilloClamps ==
    call.name \in {"escribir", "setBrillo"} =>
        /\ leds[call.dev].brillo = Clamp255(call.arg)
        /\ leds[call.dev].encendido = (leds[call.dev].brillo > 0)

\* a call with a value above the range, stored as 255 although the LED was off
C1_Witness ==
    /\ call.name = "setBrillo"
    /\ call.arg = 256
    /\ call.antes.brillo = 0
    /\ leds[call.dev].brillo = 255

\* C2: in every reachable state of every output, after any sequence of
\* setBrightness / turnOn / turnOff / toggle calls, brightness is in 0..255
\* and isOn = (brightness > 0).
C2_IsOnIffBright ==
    \A i \in DOMAIN leds :
        /\ leds[i].brillo \in 0..255
        /\ leds[i].encendido = (leds[i].brillo > 0)

\* an LED that was on has been turned off, after an out-of-range write
C2_Witness ==
    /\ call.name = "apagar"
    /\ call.antes.encendido
    /\ prev.name = "escribir"
    /\ prev.arg = INT_MAX
    /\ prev.dev = call.dev
    /\ ~leds[call.dev].encendido

\* C3: two consecutive toggle() calls on an output, with no other call in
\* between, restore the isOn value the output had before the first.
C3_ToggleInvolution ==
    (call.name = "alternar" /\ prev.name = "alternar" /\ prev.dev = call.dev) =>
        leds[call.dev].encendido = prev.antes.encendido

\* two toggles of an LED that was dimly on: isOn is restored (the brightness
\* is not: it comes back as 255)
C3_Witness ==
    /\ call.name = "alternar"
    /\ prev.name = "alternar"
    /\ prev.dev = call.dev
    /\ prev.antes.brillo = 1
    /\ prev.antes.encendido
    /\ leds[call.dev].encendido

\* C33: every setBrightness call issues a physical PWM write of the clamped
\* value even when it equals the current brightness (no de-duplication),
\* and in every reachable state the cached brightness returned by read()
\* equals the last level physically written to that output; repeating the
\* same setBrightness call leaves the stored state unchanged.
C33_EveryCallWritesAndCacheIsLastWrite ==
    /\ call.name \in {"escribir", "setBrillo"} =>
            /\ call.ret = Clamp255(call.arg)
            /\ leds[call.dev].pwm = call.ret
    /\ \A i \in DOMAIN leds : LedLeer(leds[i]) = leds[i].pwm
    /\ (/\ call.name \in {"escribir", "setBrillo"}
        /\ prev.name = call.name
        /\ prev.dev = call.dev
        /\ prev.arg = call.arg) =>
            /\ leds[call.dev] = call.antes
            /\ call.ret = prev.ret

\* setBrillo(256) twice on one LED: the second call finds the LED at 255,
\* writes 255 again and leaves it as it was
C33_Witness ==
    /\ call.name = "setBrillo"
    /\ prev.name = "setBrillo"
    /\ prev.dev = call.dev
    /\ prev.arg = 256
    /\ call.arg = 256
    /\ call.antes.brillo = 255
    /\ call.ret = 255
    /\ leds[call.dev] = call.antes

-----------------------------------------------------------------------------
(* class Boton *)

\* mutant: the debounce test accepts an edge 50 ms after the last one
PresionadoDesde50(b, actual, ahora, tick) ==
    IF b.pin = 0 THEN [b |-> b, ret |-> FALSE]
    ELSE IF /\ b.estadoAnterior = HIGH
            /\ actual = LOW
            /\ Mayor32(Resta32(ahora, b.ultimoDebounce), 49)
         THEN [b |-> [b EXCEPT !.estadoAnterior = actual,
                               !.ultimoDebounce = Suma32(ahora, tick)],
               ret |-> TRUE]
         ELSE [b |-> [b EXCEPT !.estadoAnterior = actual], ret |-> FALSE]

\* mutant: the debounce test is dropped, every falling edge is a press
PresionadoSinDebounce(b, actual, ahora, tick) ==
    IF b.pin = 0 THEN [b |-> b, ret |-> FALSE]
    ELSE IF b.estadoAnterior = HIGH /\ actual = LOW
         THEN [b |-> [b EXCEPT !.estadoAnterior = actual,
                               !.ultimoDebounce = Suma32(ahora, tick)],
               ret |-> TRUE]
         ELSE [b |-> [b EXCEPT !.estadoAnterior = actual], ret |-> FALSE]

\* mutant: the pin check is missing
PresionadoSinPin(b, actual, ahora, tick) ==
    IF /\ b.estadoAnterior = HIGH
       /\ actual = LOW
       /\ Mayor32(Resta32(ahora, b.ultimoDebounce), 50)
    THEN [b |-> [b EXCEPT !.estadoAnterior = actual,
                          !.ultimoDebounce = Suma32(ahora, tick)],
          ret |-> TRUE]
    ELSE [b |-> [b EXCEPT !.estadoAnterior = actual], ret |-> FALSE]

\* mutant: estadoAnterior is stored only when a press is accepted
PresionadoSinGuardarNivel(b, actual, ahora, tick) ==
    IF b.pin = 0 THEN [b |-> b, ret |-> FALSE]
    ELSE IF /\ b.estadoAnterior = HIGH
            /\ actual = LOW
            /\ Mayor32(Resta32(ahora, b.ultimoDebounce), 50)
         THEN [b |-> [b EXCEPT !.estadoAnterior = actual,
                               !.ultimoDebounce = Suma32(ahora, tick)],
               ret |-> TRUE]
         ELSE [b |-> b, ret |-> FALSE]

\* mutant: a falling edge rejected by the debounce test is not recorded, so
\* that it can be accepted by a later poll
PresionadoReintenta(b, actual, ahora, tick) ==
    IF b.pin = 0 THEN [b |-> b, ret |-> FALSE]
    ELSE IF /\ b.estadoAnterior = HIGH
            /\ actual = LOW
            /\ Mayor32(Resta32(ahora, b.ultimoDebounce), 50)
         THEN [b |-> [b EXCEPT !.estadoAnterior = actual,
                               !.ultimoDebounce = Suma32(ahora, tick)],
               ret |-> TRUE]
         ELSE IF b.estadoAnterior = HIGH /\ actual = LOW
              THEN [b |-> b, ret |-> FALSE]
              ELSE [b |-> [b EXCEPT !.estadoAnterior = actual], ret |-> FALSE]

\* bool presionado(): `actual` is the level digitalRead(pin) returns, `ahora`
\* the value of the first millis() and `ahora + tick` that of the second.
\* The result is the button after the call and the value returned.
Presionado(b, actual, ahora, tick) ==
    IF b.pin = 0 THEN [b |-> b, ret |-> FALSE]
    ELSE IF /\ b.estadoAnterior = HIGH
            /\ actual = LOW
            /\ Mayor32(Resta32(ahora, b.ultimoDebounce), 50)
         THEN [b |-> [b EXCEPT !.estadoAnterior = actual,
                               !.ultimoDebounce = Suma32(ahora, tick)],
               ret |-> TRUE]
         ELSE [b |-> [b EXCEPT !.estadoAnterior = actual], ret |-> FALSE]

\* int leer(): `actual` is the level digitalRead(pin) would return
BotonLeer(b, actual) == IF b.pin = 0 THEN HIGH ELSE actual

-----------------------------------------------------------------------------
(* SpecBoton: presionado() and leer() called on one button, botones[0], at  *)
(* any spacing, on any sequence of line levels. The button is wired (pin 4) *)
(* or built by the default constructor (pin 0).                             *)

\* clock advances between calls: two of them make 50, 51 or 52 ms
Deltas == {25, 26}

Niveles == {HIGH, LOW}

\* shape of the sequence of levels polled: 0 = HIGH only, 1 = HIGH then LOW,
\* 2 = HIGH, LOW, HIGH again (one clean press), 3 = anything longer
FaseTras(f, actual) ==
    CASE f = 0 -> IF actual = LOW THEN 1 ELSE 0
      [] f = 1 -> IF actual = LOW THEN 1 ELSE 2
      [] f = 2 -> IF actual = LOW THEN 3 ELSE 2
      [] OTHER -> 3

InitBoton ==
    \E p0 \in {0, PinesBotones[1]}, m0 \in RelojesIniciales : InitObjetos(p0, m0)

\* time passes: the clock advances by one of the steps in D, at most n times
\* (the step is no method call, so `call` is cleared)
AvanzarEn(D, n) ==
    /\ pasos < n
    /\ \E d \in D :
        /\ millis' = Suma32(millis, d)
        /\ reloj' = reloj + d
    /\ pasos' = pasos + 1
    /\ call' = NoCall
    /\ UNCHANGED <<leds, botones, modos, prev, aceptados, fase, numTrue, fiesta, ciclo,
            enPrueba, arranque, flancoRechazado, potModos>>

Avanzar == AvanzarEn(Deltas, MaxPasos)

BotonPresionado ==
    \E actual \in Niveles, tick \in 0..MaxTick :
        LET r == Presionado(botones[0], actual, millis, tick)
        IN  /\ botones' = [botones EXCEPT ![0] = r.b]
            /\ call' = Call("presionado", 0, actual, 0, r.ret, millis, botones[0])
            /\ millis' = IF r.ret THEN Suma32(millis, tick) ELSE millis
            /\ reloj' = IF r.ret THEN reloj + tick ELSE reloj
            /\ aceptados' = IF r.ret THEN <<aceptados[2], reloj>> ELSE aceptados
            /\ numTrue' = IF r.ret THEN numTrue + 1 ELSE numTrue
            /\ fase' = FaseTras(fase, actual)
            /\ flancoRechazado' =
                    IF botones[0].pin = 0 \/ actual = HIGH \/ r.ret THEN FALSE
                    ELSE IF botones[0].estadoAnterior = HIGH THEN TRUE
                    ELSE flancoRechazado
            /\ UNCHANGED <<leds, modos, prev, pasos, fiesta, ciclo, enPrueba, arranque,
                           potModos>>

BotonLeerLlamada ==
    \E actual \in Niveles :
        /\ call' = Call("leer", 0, actual, BotonLeer(botones[0], actual), FALSE,
                        millis, botones[0])
        /\ UNCHANGED <<leds, botones, modos, millis, reloj, prev, aceptados, fase,
                       numTrue, pasos, fiesta, ciclo, enPrueba, arranque, flancoRechazado, potModos>>

NextBoton ==
    \/ Avanzar
    \/ BotonPresionado
    \/ BotonLeerLlamada

SpecBoton == InitBoton /\ [][NextBoton]_vars

-----------------------------------------------------------------------------
(* Claims about Boton *)

\* the last call was presionado() on a wired button
PollCableado == call.name = "presionado" /\ call.antes.pin # 0

\* the call saw the line fall: previousLevel HIGH, level read LOW
FlancoVisto == call.antes.estadoAnterior = HIGH /\ call.arg = LOW

\* milliseconds on the 32-bit clock between the recorded time of the last
\* accepted transition (0 on a new button) and the call
Transcurrido == Resta32(call.t, call.antes.ultimoDebounce)

\* C4 as stated: presionado() on a wired button returns true if and only if
\* the call observes a HIGH->LOW transition and at least 50 ms have elapsed
\* since the last accepted transition.
C4_Original_AtLeast50 ==
    (PollCableado /\ aceptados[2] # -1) =>
        (call.retB <=> (FlancoVisto /\ Mayor32(Transcurrido, 49)))

\* C4 (amended): presionado() on a wired button returns true if and only if
\* the call observes a HIGH->LOW transition (previousLevel HIGH, level read
\* LOW) and MORE than 50 ms have elapsed on the millisecond clock since the
\* recorded time of the last accepted transition (0 before the first one);
\* in every other case it returns false.
C4_TrueIffEdgeAfterWindow ==
    PollCableado =>
        (call.retB <=> (FlancoVisto /\ Mayor32(Transcurrido, 50)))

\* a falling edge polled 51 ms after an accepted one is accepted
C4_Witness ==
    /\ PollCableado
    /\ FlancoVisto
    /\ call.antes.ultimoDebounce # Cero32
    /\ Transcurrido = [hi |-> 0, lo |-> 51]
    /\ call.retB

\* C5: any two presionado() calls on one button that return true are at
\* least 50 ms apart, whatever the line levels and the poll times.
C5_AcceptedAtLeast50Apart ==
    (aceptados[1] # -1 /\ aceptados[2] # -1) => aceptados[2] - aceptados[1] >= 50

\* two presses were accepted, with a rejected falling edge polled in between
C5_Witness ==
    /\ aceptados[1] # -1
    /\ aceptados[2] # -1
    /\ fase = 3
    /\ numTrue = 2
    /\ call.name = "presionado"
    /\ call.retB

\* C6: over a clean single HIGH->LOW->HIGH transition on a wired button
\* (line HIGH before and after, no other transition), the presionado() calls
\* return true exactly once.
C6_CleanPressExactlyOnce ==
    (botones[0].pin # 0 /\ fase = 2) => numTrue = 1

\* C7: a button built on the sentinel channel 0 reports presionado() = false
\* and leer() = HIGH on every call, and its debounce state (previousLevel,
\* lastAcceptedEdgeTime) never changes.
C7_UnwiredIsInert ==
    botones[0].pin = 0 =>
        /\ botones[0] = BotonNuevo(0)
        /\ numTrue = 0
        /\ call.name = "presionado" => ~call.retB
        /\ call.name = "leer" => call.ret = HIGH

\* an unwired button polled with the line LOW, long after construction
C7_Witness ==
    /\ botones[0].pin = 0
    /\ call.name = "presionado"
    /\ call.arg = LOW
    /\ reloj > 50
    /\ fase = 3

\* C26: after every pollPressed() call on a wired button, previousLevel
\* equals the level read in that call, whether the call returned true or
\* false.
C26_PreviousLevelIsLevelRead ==
    PollCableado => botones[0].estadoAnterior = call.arg

\* a falling edge rejected inside the debounce window: the call returned
\* false and previousLevel is LOW
C26_Witness ==
    /\ PollCableado
    /\ FlancoVisto
    /\ call.antes.ultimoDebounce # Cero32
    /\ ~Mayor32(Transcurrido, 50)
    /\ ~call.retB
    /\ botones[0].estadoAnterior = LOW

\* C27: a HIGH->LOW transition observed by pollPressed() inside the debounce
\* window is not counted as a press and is never reported by any later poll
\* while the line stays LOW, even after the window has closed; a new report
\* requires the line to be read HIGH and then LOW again.
C27_RejectedEdgeIsNeverReported ==
    /\ (PollCableado /\ FlancoVisto /\ ~Mayor32(Transcurrido, 50)) =>
            (~call.retB /\ flancoRechazado)
    /\ (PollCableado /\ call.arg = LOW /\ call.antes.estadoAnterior = LOW) => ~call.retB
    /\ (flancoRechazado /\ PollCableado) => ~call.retB
    /\ flancoRechazado => botones[0].estadoAnterior = LOW
    /\ (PollCableado /\ call.retB) => FlancoVisto

\* a falling edge was rejected after an accepted press, the line stayed LOW,
\* and a poll made after the window had closed returned false
C27_Witness ==
    /\ flancoRechazado
    /\ PollCableado
    /\ numTrue = 1
    /\ call.arg = LOW
    /\ call.antes.estadoAnterior = LOW
    /\ Mayor32(Transcurrido, 50)
    /\ ~call.retB

-----------------------------------------------------------------------------
(* class SensorLDR *)

\* int leer(): `lectura` is the value analogRead(pin) returns
LdrLeer(lectura) == lectura

\* mutant: a reading equal to the threshold is not dark
EsOscuroEstricto(lectura) == LdrLeer(lectura) < UMBRAL_LDR

\* bool esOscuro() { return leer() <= UMBRAL_LDR; }
EsOscuro(lectura) == LdrLeer(lectura) <= UMBRAL_LDR

-----------------------------------------------------------------------------
(* class Potenciometro *)

\* full scale of analogRead() on the ESP32, as getModo() passes it to map()
ADC_MAX == 4095

\* mutant: the result of map() is returned without constrain()
GetModoSinConstrain(valor) == Map(valor, 0, ADC_MAX, 0, 6)

\* mutant: map() rounds to the nearest mode instead of truncating
GetModoRedondeado(valor) ==
    Constrain((valor * 6 + (ADC_MAX \div 2)) \div ADC_MAX, 0, 5)

\* int getModo(): `valor` is what leer() = analogRead(pin) returns
GetModo(valor) == Constrain(Map(valor, 0, ADC_MAX, 0, 6), 0, 5)

-----------------------------------------------------------------------------
(* SpecPot: getModo() called on a sequence of raw readings. The first       *)
(* reading is any value of 0..4095; each later one is next to the reading   *)
(* before it or at the edge of one of the buckets of map(), so that every   *)
(* pair of adjacent readings and every pair (reading, bucket edge) occurs.  *)

LecturasADC == 0..ADC_MAX

\* the first and last reading of each bucket of map(valor, 0, 4095, 0, 6)
Fronteras ==
    {0, 682, 683, 1364, 1365, 2047, 2048, 2729, 2730, 3412, 3413, 4094, 4095}

Vecinas(r) == {r - 1, r + 1} \cap LecturasADC

PotGetModo ==
    \E valor \in (IF call.name = "getModo"
                   THEN Vecinas(call.arg) \cup Fronteras
                   ELSE LecturasADC) :
        /\ call' = Call("getModo", 0, valor, GetModo(valor), FALSE, millis, 0)
        /\ prev' = call
        /\ UNCHANGED <<leds, botones, modos, millis, reloj, aceptados, fase, numTrue,
                       pasos, fiesta, ciclo, enPrueba, arranque, flancoRechazado, potModos>>

NextPot == PotGetModo

InitPot == InitObjetos(PinesBotones[1], [hi |-> 0, lo |-> TrasSetup])

SpecPot == InitPot /\ [][NextPot]_vars

\* C10: selectedMode() (Potenciometro::getModo) is monotonic non-decreasing
\* in the raw reading and always returns a value in 0..5, for every raw
\* reading in 0..4095.
C10_GetModoMonotonicInRange ==
    call.name = "getModo" =>
        /\ call.ret \in 0..5
        /\ (prev.name = "getModo" /\ prev.arg <= call.arg) => prev.ret <= call.ret

\* the two top readings: map() gives 5 and 6, getModo() gives 5 for both
C10_Witness ==
    /\ call.name = "getModo"
    /\ prev.name = "getModo"
    /\ prev.arg = ADC_MAX - 1
    /\ call.arg = ADC_MAX
    /\ Map(call.arg, 0, ADC_MAX, 0, 6) = 6
    /\ prev.ret = 5
    /\ call.ret = 5

-----------------------------------------------------------------------------
(* class SistemaModos *)

\* const char* nombresModos[6]
NombresModos ==
    [i \in 0..5 |-> <<"NOCHE", "LECTURA", "RELAJ", "FIESTA", "AUTO", "MANUAL">>[i + 1]]

\* mutant: the range check is missing
CambiarModoSinValidar(m, nuevoModo) == [m EXCEPT !.modoActual = nuevoModo]

\* mutant: the upper end of the range check is off by one
CambiarModoHasta6(m, nuevoModo) ==
    IF nuevoModo >= 0 /\ nuevoModo <= 6 THEN [m EXCEPT !.modoActual = nuevoModo] ELSE m

\* mutant: the selector does not take the mode back from Auto while
\* forzarEncendido is set
CambiarModoTrasAtajo(m, nuevoModo) ==
    IF m.modoActual = 4 /\ m.forzarEncendido THEN m
    ELSE IF nuevoModo >= 0 /\ nuevoModo <= 5 THEN [m EXCEPT !.modoActual = nuevoModo]
    ELSE m

\* mutant: a change of mode made by the selector clears forzarEncendido
CambiarModoLimpiaForzado(m, nuevoModo) ==
    IF nuevoModo >= 0 /\ nuevoModo <= 5
    THEN [m EXCEPT !.modoActual = nuevoModo,
                   !.forzarEncendido = IF nuevoModo # m.modoActual THEN FALSE ELSE @]
    ELSE m

\* void cambiarModo(int nuevoModo)
CambiarModo(m, nuevoModo) ==
    IF nuevoModo >= 0 /\ nuevoModo <= 5 THEN [m EXCEPT !.modoActual = nuevoModo] ELSE m

\* mutant: cambiarModoAuto() flips autoActivo instead of setting it
CambiarModoAutoAlterna(m) == [m EXCEPT !.modoActual = 4, !.autoActivo = ~m.autoActivo]

\* void cambiarModoAuto()
CambiarModoAuto(m) == [m EXCEPT !.modoActual = 4, !.autoActivo = TRUE]

\* void toggleAuto()
ToggleAuto(m) == [m EXCEPT !.autoActivo = ~m.autoActivo]

\* void toggleForzarEncendido()
ToggleForzarEncendido(m) == [m EXCEPT !.forzarEncendido = ~m.forzarEncendido]

\* bool isAutoActivo() / isForzarEncendido()
IsAutoActivo(m) == m.autoActivo

IsForzarEncendido(m) == m.forzarEncendido

\* bool esModoFiesta() / esModoManual() / esModoAuto()
EsModoFiesta(m) == m.modoActual = 3

EsModoManual(m) == m.modoActual = 5

EsModoAuto(m) == m.modoActual = 4

\* getBrilloPorModo() with three of its choices open, for the mutants below:
\* the value returned in Night mode when the sensor reads light, the number
\* of ms the hysteresis gate must exceed, and whether Auto returns the
\* recorded decision instead of the current one
GetBrilloVariante(m, valorLDR, ahora, tick, nocheClaro, ms, porRegistro) ==
    CASE m.modoActual = 0 ->
            [m |-> m, ret |-> IF valorLDR <= UMBRAL_LDR THEN 51 ELSE nocheClaro]
      [] m.modoActual = 1 -> [m |-> m, ret |-> 102]
      [] m.modoActual = 2 -> [m |-> m, ret |-> 76]
      [] m.modoActual = 3 -> [m |-> m, ret |-> 0]
      [] m.modoActual = 4 ->
            LET oscuroAhora == valorLDR <= UMBRAL_LDR
                debeEncender == oscuroAhora \/ m.forzarEncendido
                nuevo == IF /\ debeEncender # m.estadoAutoAnterior
                            /\ Mayor32(Resta32(ahora, m.ultimoCambioLED), ms)
                         THEN [m EXCEPT !.estadoAutoAnterior = debeEncender,
                                        !.ultimoCambioLED = Suma32(ahora, tick)]
                         ELSE m
                decide == IF porRegistro THEN nuevo.estadoAutoAnterior ELSE debeEncender
            IN  [m |-> nuevo, ret |-> IF decide THEN 255 ELSE 0]
      [] m.modoActual = 5 -> [m |-> m, ret |-> -1]
      [] OTHER -> [m |-> m, ret |-> 100]

\* mutant: Night mode dims to 0 when the sensor reads light
GetBrilloNocheSegunLDR(m, valorLDR, ahora, tick) ==
    GetBrilloVariante(m, valorLDR, ahora, tick, 0, 1000, FALSE)

\* mutant: Auto returns the recorded (debounced) decision
GetBrilloPorRegistro(m, valorLDR, ahora, tick) ==
    GetBrilloVariante(m, valorLDR, ahora, tick, 51, 1000, TRUE)

\* mutant: the hysteresis gate opens 1000 ms after the last recorded change
GetBrilloDesde1000(m, valorLDR, ahora, tick) ==
    GetBrilloVariante(m, valorLDR, ahora, tick, 51, 999, FALSE)

\* int getBrilloPorModo(int valorLDR): `ahora` is the value of the first
\* millis() and `ahora + tick` that of the second. The result is the object
\* after the call and the value returned.
GetBrilloPorModo(m, valorLDR, ahora, tick) ==
    CASE m.modoActual = 0 -> [m |-> m, ret |-> 51]
      [] m.modoActual = 1 -> [m |-> m, ret |-> 102]
      [] m.modoActual = 2 -> [m |-> m, ret |-> 76]
      [] m.modoActual = 3 -> [m |-> m, ret |-> 0]
      [] m.modoActual = 4 ->
            LET oscuroAhora == valorLDR <= UMBRAL_LDR
                debeEncender == oscuroAhora \/ m.forzarEncendido
            IN  [m |-> IF /\ debeEncender # m.estadoAutoAnterior
                          /\ Mayor32(Resta32(ahora, m.ultimoCambioLED), 1000)
                       THEN [m EXCEPT !.estadoAutoAnterior = debeEncender,
                                      !.ultimoCambioLED = Suma32(ahora, tick)]
                       ELSE m,
                 ret |-> IF debeEncender THEN 255 ELSE 0]
      [] m.modoActual = 5 -> [m |-> m, ret |-> -1]
      [] OTHER -> [m |-> m, ret |-> 100]

\* manejarModoFiesta() with two of its choices open, for the mutants below:
\* the LED it lights, `salto` places after ledFiestaActual, and the modulus
\* the index is reduced by
ManejarFiestaVariante(m, ls, totalLEDs, ahora, tick, salto, modulo) ==
    IF Mayor32(Resta32(ahora, m.ultimoCambioFiesta), 200)
    THEN [m |-> [m EXCEPT !.ledFiestaActual = (m.ledFiestaActual + 1) % modulo,
                          !.ultimoCambioFiesta = Suma32(ahora, tick)],
          leds |-> [i \in DOMAIN ls |->
                      IF i = (m.ledFiestaActual + salto) % totalLEDs
                      THEN Encender(IF i < totalLEDs THEN Apagar(ls[i]) ELSE ls[i])
                      ELSE IF i < totalLEDs THEN Apagar(ls[i]) ELSE ls[i]]]
    ELSE [m |-> m, leds |-> ls]

\* mutant: the index advances before the LED is lit
ManejarFiestaAvanzaAntes(m, ls, totalLEDs, ahora, tick) ==
    ManejarFiestaVariante(m, ls, totalLEDs, ahora, tick, 1, totalLEDs)

\* mutant: the index goes back to 0 after every step
ManejarFiestaSinAvance(m, ls, totalLEDs, ahora, tick) ==
    ManejarFiestaVariante(m, ls, totalLEDs, ahora, tick, 0, 1)

\* mutant: the index wraps one place too late
ManejarFiestaSinVuelta(m, ls, totalLEDs, ahora, tick) ==
    ManejarFiestaVariante(m, ls, totalLEDs, ahora, tick, 0, totalLEDs + 1)

\* mutant: the step lights its LED without turning the others off
ManejarFiestaSinApagar(m, ls, totalLEDs, ahora, tick) ==
    IF Mayor32(Resta32(ahora, m.ultimoCambioFiesta), 200)
    THEN [m |-> [m EXCEPT !.ledFiestaActual = (m.ledFiestaActual + 1) % totalLEDs,
                          !.ultimoCambioFiesta = Suma32(ahora, tick)],
          leds |-> [ls EXCEPT ![m.ledFiestaActual] = Encender(ls[m.ledFiestaActual])]]
    ELSE [m |-> m, leds |-> ls]

\* void manejarModoFiesta(LED* leds[], int totalLEDs): `ahora` is the value
\* of the first millis() read and `tick` the ms that pass before the second.
\*   if (millis() - ultimoCambioFiesta > 200) {
\*     for (i < totalLEDs) leds[i]->apagar();
\*     leds[ledFiestaActual]->encender();
\*     ledFiestaActual = (ledFiestaActual + 1) % totalLEDs;
\*     ultimoCambioFiesta = millis(); }
\* Returns the controller and the LEDs after the call.
ManejarModoFiesta(m, ls, totalLEDs, ahora, tick) ==
    IF Mayor32(Resta32(ahora, m.ultimoCambioFiesta), 200)
    THEN LET apagados == [i \in DOMAIN ls |->
                            IF i < totalLEDs THEN Apagar(ls[i]) ELSE ls[i]]
         IN  [m |-> [m EXCEPT !.ledFiestaActual = (m.ledFiestaActual + 1) % totalLEDs,
                              !.ultimoCambioFiesta = Suma32(ahora, tick)],
              leds |-> [apagados EXCEPT ![m.ledFiestaActual] =
                                            Encender(apagados[m.ledFiestaActual])]]
    ELSE [m |-> m, leds |-> ls]

\* mutant: the press switches to Auto and sets the forced-on flag
AtajoP4Activa(m) == [CambiarModoAuto(m) EXCEPT !.forzarEncendido = TRUE]

\* loop(), step 3: what an accepted press of botones[0] does
AtajoP4(m) ==
    IF EsModoAuto(m)
    THEN ToggleForzarEncendido(m)
    ELSE ToggleForzarEncendido(CambiarModoAuto(m))

-----------------------------------------------------------------------------
(* SpecModos: the methods of SistemaModos called in any order *)

\* mode indices passed to cambiarModo(): the six modes, both neighbours of
\* the range, 7, and the least int
IndicesModo == {INT_MIN, -1} \cup 0..7

\* sensor readings passed to getBrilloPorModo(): both ends of the scale and
\* both sides of the threshold
LecturasLDR == {0, UMBRAL_LDR, UMBRAL_LDR + 1, ADC_MAX}

\* clock advances between calls: two of them make 1000, 1001 or 1002 ms
DeltasModos == {500, 501}

AvanzarModos == AvanzarEn(DeltasModos, MaxPasosModos)

ModosLlamada(nombre, arg, nuevo, ret) ==
    /\ modos' = nuevo
    /\ call' = Call(nombre, 0, arg, ret, FALSE, millis, modos)
    /\ UNCHANGED <<leds, botones, prev, aceptados, fase, numTrue, pasos, fiesta, ciclo,
            enPrueba, arranque, flancoRechazado, potModos>>

ModosCambiarModo ==
    \E n \in IndicesModo :
        ModosLlamada("cambiarModo", n, CambiarModo(modos, n), 0) /\ UNCHANGED <<millis, reloj>>

ModosCambiarModoAuto ==
    ModosLlamada("cambiarModoAuto", 0, CambiarModoAuto(modos), 0) /\ UNCHANGED <<millis, reloj>>

ModosToggleAuto ==
    ModosLlamada("toggleAuto", 0, ToggleAuto(modos), 0) /\ UNCHANGED <<millis, reloj>>

ModosToggleForzar ==
    ModosLlamada("toggleForzarEncendido", 0, ToggleForzarEncendido(modos), 0)
        /\ UNCHANGED <<millis, reloj>>

ModosAtajoP4 ==
    ModosLlamada("atajoP4", 0, AtajoP4(modos), 0) /\ UNCHANGED <<millis, reloj>>

ModosGetBrillo ==
    \E valorLDR \in LecturasLDR, tick \in 0..MaxTick :
        LET r == GetBrilloPorModo(modos, valorLDR, millis, tick)
        IN  /\ ModosLlamada("getBrilloPorModo", valorLDR, r.m, r.ret)
            /\ millis' = IF r.m # modos THEN Suma32(millis, tick) ELSE millis
            /\ reloj' = IF r.m # modos THEN reloj + tick ELSE reloj

NextModos ==
    \/ AvanzarModos
    \/ ModosCambiarModo
    \/ ModosCambiarModoAuto
    \/ ModosToggleAuto
    \/ ModosToggleForzar
    \/ ModosAtajoP4
    \/ ModosGetBrillo

InitModos == \E m0 \in RelojesIniciales : InitObjetos(PinesBotones[1], m0)

SpecModos == InitModos /\ [][NextModos]_vars

-----------------------------------------------------------------------------
(* Claims about SistemaModos *)

\* C8: setMode(idx) (SistemaModos::cambiarModo) changes currentMode to idx
\* only when 0 <= idx <= 5; for any other idx (7, a negative one) it leaves
\* currentMode and every other field of the controller unchanged, and no
\* error is signalled.
C8_CambiarModoValidates ==
    call.name = "cambiarModo" =>
        modos = IF call.arg \in 0..5
                THEN [call.antes EXCEPT !.modoActual = call.arg]
                ELSE call.antes

\* cambiarModo(7) in Relax mode, with forced-on set: nothing changes
C8_Witness ==
    /\ call.name = "cambiarModo"
    /\ call.arg = 7
    /\ call.antes.modoActual = 2
    /\ call.antes.forzarEncendido
    /\ modos.modoActual = 2

\* C9: in every reachable state, after any sequence of setMode, shortcut,
\* toggle and decide operations, currentMode is one of the six modes, an
\* index of the 6-entry table of mode names.
C9_ModoActualInTable ==
    /\ modos.modoActual \in 0..5
    /\ modos.modoActual \in DOMAIN NombresModos

\* cambiarModo(6) was called in Manual mode, after a recorded Auto decision
C9_Witness ==
    /\ call.name = "cambiarModo"
    /\ call.arg = 6
    /\ modos.modoActual = 5
    /\ modos.estadoAutoAnterior
    /\ modos.forzarEncendido

-----------------------------------------------------------------------------
(* Claims about SistemaModos::getBrilloPorModo *)

\* the last call was getBrilloPorModo()
Decide == call.name = "getBrilloPorModo"

\* shouldBeDark of the call: sensor at or below the threshold, or forced on
DebeEncender == call.arg <= 400 \/ call.antes.forzarEncendido

\* ms on the 32-bit clock between the last recorded change and the call
DesdeCambioLED == Resta32(call.t, call.antes.ultimoCambioLED)

\* C11: decide(sensorReading) returns 51 in Night, 102 in Reading, 76 in
\* Relax and the sentinel -1 in Manual, for every sensor reading and every
\* value of autoEnabled and forceOn.
C11_FixedModesByModeOnly ==
    Decide =>
        /\ call.antes.modoActual = 0 => call.ret = 51
        /\ call.antes.modoActual = 1 => call.ret = 102
        /\ call.antes.modoActual = 2 => call.ret = 76
        /\ call.antes.modoActual = 5 => call.ret = -1

\* Night mode, sensor at full light, autoEnabled off and forceOn on: still 51
C11_Witness ==
    /\ Decide
    /\ call.antes.modoActual = 0
    /\ call.arg = ADC_MAX
    /\ ~call.antes.autoActivo
    /\ call.antes.forzarEncendido
    /\ call.ret = 51

\* C12: in Auto mode decide(sensorReading) returns 255 when sensorReading
\* <= 400 or forceOn is true and 0 otherwise, on every call, whatever the
\* recorded hysteresis state (autoLastDecision, autoLastChangeTime) and the
\* clock.
C12_AutoReturnsCurrentDecision ==
    (Decide /\ call.antes.modoActual = 4) =>
        call.ret = IF DebeEncender THEN 255 ELSE 0

\* the sensor reads 401 right after "dark" was recorded: the gate is closed,
\* the record stays "dark", and the call returns 0
C12_Witness ==
    /\ Decide
    /\ call.antes.modoActual = 4
    /\ call.arg = 401
    /\ ~call.antes.forzarEncendido
    /\ call.antes.estadoAutoAnterior
    /\ call.antes.ultimoCambioLED # Cero32
    /\ ~Mayor32(DesdeCambioLED, 1000)
    /\ modos.estadoAutoAnterior
    /\ call.ret = 0

\* the record a call leaves when it records the decision `d`: the decision
\* and the clock read after the test, every other field as before
Registrado(d) ==
    /\ modos.estadoAutoAnterior = d
    /\ \E tick \in 0..MaxTick : modos.ultimoCambioLED = Suma32(call.t, tick)
    /\ modos = [call.antes EXCEPT !.estadoAutoAnterior = modos.estadoAutoAnterior,
                                  !.ultimoCambioLED = modos.ultimoCambioLED]

\* C13 as stated: in Auto mode decide updates the recorded decision and its
\* timestamp if and only if shouldBeDark differs from the recorded decision
\* and at least 1000 ms have elapsed since the last recorded change.
C13_Original_AtLeast1000 ==
    (Decide /\ call.antes.modoActual = 4 /\ call.antes.ultimoCambioLED # Cero32) =>
        IF /\ DebeEncender # call.antes.estadoAutoAnterior
           /\ Mayor32(DesdeCambioLED, 999)
        THEN Registrado(DebeEncender)
        ELSE modos = call.antes

\* C13 (amended): in Auto mode a decide call updates the recorded decision
\* and its timestamp if and only if shouldBeDark differs from the recorded
\* decision and MORE than 1000 ms have elapsed since the recorded time of
\* the last change (0 before the first one); otherwise both stay unchanged,
\* and decide in any non-Auto mode never changes them.
C13_RecordIffChangedAfterWindow ==
    Decide =>
        IF /\ call.antes.modoActual = 4
           /\ DebeEncender # call.antes.estadoAutoAnterior
           /\ Mayor32(DesdeCambioLED, 1000)
        THEN Registrado(DebeEncender)
        ELSE modos = call.antes

\* a change of decision polled 1001 ms after the last recorded one is recorded
C13_Witness ==
    /\ Decide
    /\ call.antes.modoActual = 4
    /\ call.antes.ultimoCambioLED # Cero32
    /\ call.antes.estadoAutoAnterior
    /\ DesdeCambioLED = [hi |-> 0, lo |-> 1001]
    /\ ~modos.estadoAutoAnterior
    /\ modos.ultimoCambioLED # call.antes.ultimoCambioLED

-----------------------------------------------------------------------------
(* SpecFiesta: manejarModoFiesta() called at any pace, between changes of mode *)

\* number of clock advances in one run of the party specification: enough
\* for the chase to go once round the eight LEDs and on
MaxPasosFiesta == 8

\* ms between two calls: the animation interval and one more
DeltasFiesta == {200, 201}

\* modes the selector is turned to between animation steps: Night, Party
ModosFiesta == {0, 3}

AvanzarFiesta == AvanzarEn(DeltasFiesta, MaxPasosFiesta)

\* one call of modos.manejarModoFiesta(leds, 8). The run being observed
\* counts the call while every call of the run has come at least 200 ms
\* after the one before (the first: after the last recorded step), and
\* counts the animation steps made.
FiestaPaso ==
    \E tick \in {0, MaxTick} :
        \E r \in {ManejarModoFiesta(modos, leds, NumLeds, millis, tick)} :
        \E hecho \in {r.m # modos \/ r.leds # leds} :
        LET desde == IF fiesta.llamadas = 0
                     THEN Resta32(millis, modos.ultimoCambioFiesta)
                     ELSE Resta32(millis, call.t)
            espaciada == /\ fiesta.llamadas >= 0
                         /\ fiesta.llamadas > 0 => call.name = "manejarModoFiesta"
                         /\ Mayor32(desde, 199)
        IN  /\ modos' = r.m
            /\ leds' = r.leds
            /\ millis' = IF hecho THEN Suma32(millis, tick) ELSE millis
            /\ reloj' = IF hecho THEN reloj + tick ELSE reloj
            /\ call' = Call("manejarModoFiesta", 0, NumLeds, 0, hecho, millis, modos)
            /\ fiesta' = [fiesta EXCEPT
                             !.llamadas = IF espaciada THEN @ + 1 ELSE -1,
                             !.hechos = IF hecho THEN @ + 1 ELSE @]
            /\ UNCHANGED <<botones, prev, aceptados, fase, numTrue, pasos, ciclo, enPrueba,
                           arranque, flancoRechazado, potModos>>

\* the observer of the run that began at index 0 starts a new run at the
\* present chase index
FiestaObservar ==
    /\ fiesta.inicio = 0
    /\ fiesta.hechos >= 1
    /\ fiesta' = FiestaNueva(modos.ledFiestaActual)
    /\ UNCHANGED <<leds, botones, modos, millis, reloj, call, prev, aceptados, fase,
                   numTrue, pasos, ciclo, enPrueba, arranque, flancoRechazado, potModos>>

\* modos.cambiarModo(n) between two animation steps
FiestaCambiarModo ==
    \E n \in ModosFiesta :
        /\ CambiarModo(modos, n) # modos
        /\ modos' = CambiarModo(modos, n)
        /\ UNCHANGED <<leds, botones, millis, reloj, call, prev, aceptados, fase,
                       numTrue, pasos, fiesta, ciclo, enPrueba, arranque, flancoRechazado, potModos>>

NextFiesta == AvanzarFiesta \/ FiestaPaso \/ FiestaObservar \/ FiestaCambiarModo

\* the party animation has never run and the counter is about to wrap
InitFiesta ==
    InitObjetos(PinesBotones[1], [hi |-> Base16 - 1, lo |-> Base16 - 60])

SpecFiesta == InitFiesta /\ [][NextFiesta]_vars

\* indices of the LEDs that are on
Encendidos == {i \in DOMAIN leds : leds[i].encendido}

\* C18 as stated: starting from party index initialIndex with N outputs,
\* after k calls of stepPartyAnimation spaced at least 200 ms apart,
\* exactly one output is on and it is outputs[(initialIndex + k) mod N].
C18_Original_IndexPlusK ==
    fiesta.llamadas >= 1 =>
        Encendidos = {(fiesta.inicio + fiesta.llamadas) % NumLeds}

\* C18 (amended): a call of stepPartyAnimation makes an animation step if
\* and only if MORE than 200 ms have elapsed since the recorded time of the
\* last step (0 before the first one); starting from party index
\* initialIndex with N outputs, after k >= 1 steps exactly one output is on,
\* it is outputs[(initialIndex + k - 1) mod N], and partyIndex is
\* (initialIndex + k) mod N.
C18_ChaseLightsIndexBeforeAdvance ==
    /\ call.name = "manejarModoFiesta" =>
            /\ call.retB <=>
                    Mayor32(Resta32(call.t, call.antes.ultimoCambioFiesta), 200)
            /\ ~call.retB => modos.ledFiestaActual = call.antes.ledFiestaActual
    /\ fiesta.hechos >= 1 =>
            /\ Encendidos = {(fiesta.inicio + fiesta.hechos - 1) % NumLeds}
            /\ modos.ledFiestaActual = (fiesta.inicio + fiesta.hechos) % NumLeds

\* a run observed from index 6: its third step has wrapped round to light
\* LED 0 and leave the index at 1
C18_Witness ==
    /\ call.name = "manejarModoFiesta"
    /\ call.retB
    /\ fiesta.inicio = 6
    /\ fiesta.hechos = 3
    /\ leds[0].encendido
    /\ modos.ledFiestaActual = 1

\* C19: partyIndex is in 0..N-1 in every reachable state, after any number
\* of animation steps and any interleaving of mode changes.
C19_PartyIndexInRange ==
    modos.ledFiestaActual \in 0..(NumLeds - 1)

\* the eighth step, made after the selector left and re-entered Party mode,
\* wraps the index from 7 to 0
C19_Witness ==
    /\ call.name = "manejarModoFiesta"
    /\ call.retB
    /\ call.antes.ledFiestaActual = NumLeds - 1
    /\ call.antes.modoActual = 3
    /\ modos.ledFiestaActual = 0

-----------------------------------------------------------------------------
(* Spec: the program. One step is one pass of loop(): every input is read   *)
(* once, the eight steps of loop() run in order, and the clock moves on by  *)
(* the time the pass took. The reads of millis() inside one pass all return *)
(* the same value: the work between them takes well under a millisecond,    *)
(* the delays (2 ms in mostrarInfo, 50 ms at the end) come after the last.  *)

\* number of passes of loop() in one run
MaxCiclos == 3
\* manual buttons (botones[1..]) that are pressed; the others stay released
BotonesProbados == 2

\* ms one pass takes: delay(2) in mostrarInfo and delay(50) at the end
DeltasLoop == {2 + 50}

\* raw readings of the light sensor: both sides of the threshold
LecturasLoop == {UMBRAL_LDR, UMBRAL_LDR + 1}

\* raw readings of the selector: one in each of the six modes
LecturasPotLoop == {0, 683, 1365, 2048, 2730, ADC_MAX}

\* levels read on botones[1..8] in one pass in Manual mode (step 4); in the
\* other modes they are not read
NivelesManual(m) ==
    IF EsModoManual(m)
    THEN {[i \in 1..(NumBotones - 1) |-> IF i \in bajos THEN LOW ELSE HIGH] :
            bajos \in SUBSET (1..BotonesProbados)}
    ELSE {[i \in 1..(NumBotones - 1) |-> HIGH]}

\* mutant: step 4 polls the manual buttons in every mode
LoopManualSiempre(m, ls, bs, niveles, ahora) ==
    [botones |-> [i \in DOMAIN bs |->
                    IF i = 0 THEN bs[i]
                    ELSE Presionado(bs[i], niveles[i], ahora, 0).b],
     leds |-> [j \in DOMAIN ls |->
                 IF Presionado(bs[j + 1], niveles[j + 1], ahora, 0).ret
                 THEN Alternar(ls[j]) ELSE ls[j]],
     pulsados |-> {i \in 1..(NumBotones - 1) :
                     Presionado(bs[i], niveles[i], ahora, 0).ret}]

\* mutant: an accepted press of botones[i] toggles leds[i]
LoopManualDesplazado(m, ls, bs, niveles, ahora) ==
    IF EsModoManual(m)
    THEN [botones |-> [i \in DOMAIN bs |->
                         IF i = 0 THEN bs[i]
                         ELSE Presionado(bs[i], niveles[i], ahora, 0).b],
          leds |-> [j \in DOMAIN ls |->
                      IF j > 0 /\ Presionado(bs[j], niveles[j], ahora, 0).ret
                      THEN Alternar(ls[j]) ELSE ls[j]],
          pulsados |-> {i \in 1..(NumBotones - 1) :
                          Presionado(bs[i], niveles[i], ahora, 0).ret}]
    ELSE [botones |-> bs, leds |-> ls, pulsados |-> {}]

\* loop(), step 4: in Manual mode poll botones[1..8] and toggle leds[i-1]
\* for each press accepted. Returns the buttons and LEDs after the step
\* and the set of buttons whose presionado() returned true.
LoopManual(m, ls, bs, niveles, ahora) ==
    IF EsModoManual(m)
    THEN [botones |-> [i \in DOMAIN bs |->
                         IF i = 0 THEN bs[i]
                         ELSE Presionado(bs[i], niveles[i], ahora, 0).b],
          leds |-> [j \in DOMAIN ls |->
                      IF Presionado(bs[j + 1], niveles[j + 1], ahora, 0).ret
                      THEN Alternar(ls[j]) ELSE ls[j]],
          pulsados |-> {i \in 1..(NumBotones - 1) :
                          Presionado(bs[i], niveles[i], ahora, 0).ret}]
    ELSE [botones |-> bs, leds |-> ls, pulsados |-> {}]

\* loop(), step 5, with three of its tests open, for the mutants below:
\* whether Manual mode skips the step (if not, its -1 is written as 0),
\* whether the write needs Auto mode or autoActivo, and whether autoActivo
\* alone is enough for it
LoopAplicarVariante(m, ls, valorLDR, ahora, saltaManual, conPuerta, bastaActivo) ==
    IF saltaManual /\ EsModoManual(m)
    THEN [m |-> m, leds |-> ls, brillo |-> -1]
    ELSE IF EsModoFiesta(m)
         THEN LET r == ManejarModoFiesta(m, ls, NumLeds, ahora, 0)
              IN  [m |-> r.m, leds |-> r.leds, brillo |-> -1]
         ELSE LET r == GetBrilloPorModo(m, valorLDR, ahora, 0)
                  b == IF r.ret >= 0 THEN r.ret ELSE 0
              IN  [m |-> r.m,
                   leds |-> IF \/ ~conPuerta
                               \/ EsModoAuto(r.m)
                               \/ (bastaActivo /\ IsAutoActivo(r.m))
                            THEN [i \in DOMAIN ls |-> SetBrillo(ls[i], b)]
                            ELSE ls,
                   brillo |-> r.ret]

\* mutant: the brightness is written whatever autoActivo is
LoopAplicarSinPuerta(m, ls, valorLDR, ahora) ==
    LoopAplicarVariante(m, ls, valorLDR, ahora, TRUE, FALSE, TRUE)

\* mutant: the brightness is written in Auto mode only
LoopAplicarSoloAuto(m, ls, valorLDR, ahora) ==
    LoopAplicarVariante(m, ls, valorLDR, ahora, TRUE, TRUE, FALSE)

\* mutant: Manual mode does not skip the step
LoopAplicarEnManual(m, ls, valorLDR, ahora) ==
    LoopAplicarVariante(m, ls, valorLDR, ahora, FALSE, TRUE, TRUE)

\* loop(), step 5: outside Manual mode run the party animation, or take the
\* brightness of the mode and, if it is not negative and the mode is Auto
\* or autoActivo is set, write it to all eight LEDs. Returns the controller
\* and the LEDs after the step and the brightness obtained (-1: none).
LoopAplicar(m, ls, valorLDR, ahora) ==
    IF EsModoManual(m)
    THEN [m |-> m, leds |-> ls, brillo |-> -1]
    ELSE IF EsModoFiesta(m)
         THEN LET r == ManejarModoFiesta(m, ls, NumLeds, ahora, 0)
              IN  [m |-> r.m, leds |-> r.leds, brillo |-> -1]
         ELSE LET r == GetBrilloPorModo(m, valorLDR, ahora, 0)
              IN  [m |-> r.m,
                   leds |-> IF /\ r.ret >= 0
                               /\ (EsModoAuto(r.m) \/ IsAutoActivo(r.m))
                            THEN [i \in DOMAIN ls |-> SetBrillo(ls[i], r.ret)]
                            ELSE ls,
                   brillo |-> r.ret]

\* loop(), steps 1 to 4: the devices read, one entry for each analogRead()
\* or digitalRead() made, in the order of the calls: ldr.leer() and
\* ldr.esOscuro() (which calls leer() again), pot.getModo(),
\* botones[0]->presionado(), and, when the mode `m` that step 3 leaves is
\* Manual, botones[1..8]->presionado()
LoopMuestras(m) ==
    <<<<"ldr", 0>>, <<"ldr", 0>>, <<"pot", 0>>, <<"boton", 0>>>>
        \o (IF EsModoManual(m)
            THEN [i \in 1..(NumBotones - 1) |-> <<"boton", i>>]
            ELSE <<>>)

\* loop(), step 8: whether this pass prints the log line
HayLog(ahora, ultimoLog) == Mayor32(Resta32(ahora, ultimoLog), 1000)

\* values the second read of the sensor, made by ldr.esOscuro(), can return.
\* The result, estaOscuro, is used by the log line only: in a pass that
\* prints none the value read does not matter and is taken as the first
SegundasLecturas(valorLDR, hayLog) == IF hayLog THEN LecturasLoop ELSE {valorLDR}

\* void loop(): one pass, with the selector read in `lecturasPot` and the
\* line of botones[0] in `niveles0`, in a run of at most `maxPasadas` passes
PasadaCon(lecturasPot, niveles0, maxPasadas) ==
    /\ pasos < maxPasadas
    /\ \E valorLDR \in LecturasLoop, lecturaPot \in lecturasPot,
          nivel0 \in niveles0, d \in DeltasLoop :
        \E segundaLDR \in SegundasLecturas(valorLDR, HayLog(millis, ciclo.ultimoLog)) :
        \E modoPot \in {GetModo(lecturaPot)} :
        \E r0 \in {Presionado(botones[0], nivel0, millis, 0)} :
        \E m2 \in {IF r0.ret THEN AtajoP4(CambiarModo(modos, modoPot))
                            ELSE CambiarModo(modos, modoPot)} :
            \E niveles \in NivelesManual(m2) :
            \E r4 \in {LoopManual(m2, leds, [botones EXCEPT ![0] = r0.b], niveles,
                                  millis)} :
            \E r5 \in {LoopAplicar(m2, r4.leds, valorLDR, millis)} :
                /\ modos' = r5.m
                /\ botones' = r4.botones
                /\ leds' = r5.leds
                /\ ciclo' = [hecho |-> TRUE, modoPot |-> modoPot,
                             valorLDR |-> LdrLeer(valorLDR), p4 |-> r0.ret,
                             pulsados |-> r4.pulsados, brillo |-> r5.brillo,
                             antes |-> [modoActual |-> modos.modoActual,
                                       forzarEncendido |-> modos.forzarEncendido],
                             ultimoLog |->
                                 IF HayLog(millis, ciclo.ultimoLog)
                                 THEN millis ELSE ciclo.ultimoLog,
                             log |->
                                 IF HayLog(millis, ciclo.ultimoLog)
                                 THEN [hay |-> TRUE, valorLDR |-> LdrLeer(valorLDR),
                                       estaOscuro |-> EsOscuro(segundaLDR)]
                                 ELSE NoLog,
                             muestras |-> LoopMuestras(m2)]
                /\ millis' = Suma32(millis, d)
                /\ reloj' = reloj + d
                /\ pasos' = pasos + 1
                /\ UNCHANGED <<call, prev, aceptados, fase, numTrue, fiesta, enPrueba, arranque, flancoRechazado, potModos>>

\* void loop(): one pass, with the selector read in `lecturasPot`
Pasada(lecturasPot) == PasadaCon(lecturasPot, Niveles, MaxCiclos)

\* void loop(): one pass
Loop == Pasada(LecturasPotLoop)

Next == Loop

Init == \E m0 \in RelojesIniciales : InitObjetos(PinesBotones[1], m0)

Spec == Init /\ [][Next]_vars

-----------------------------------------------------------------------------
(* Claims about loop() *)

\* the step is one pass of loop()
EsPasada == pasos' = pasos + 1

\* the brightness and the on-flag of every LED are as before the step
LedsIguales ==
    \A i \in DOMAIN leds :
        /\ leds'[i].brillo = leds[i].brillo
        /\ leds'[i].encendido = leds[i].encendido

\* the fixed brightness of modes Night, Reading, Relax
BrilloFijo == <<51, 102, 76>>

\* C15: after a cycle whose mode is Night, Reading or Relax with
\* autoEnabled == true, every output has the mode's fixed level (51, 102,
\* 76) and is on.
C15_FixedModeSetsAllOutputs ==
    (ciclo.hecho /\ modos.modoActual \in {0, 1, 2} /\ modos.autoActivo) =>
        \A i \in DOMAIN leds :
            /\ leds[i].brillo = BrilloFijo[modos.modoActual + 1]
            /\ leds[i].pwm = BrilloFijo[modos.modoActual + 1]
            /\ leds[i].encendido

\* the selector went from Manual to Relax: all eight LEDs are at 76
C15_Witness ==
    /\ ciclo.hecho
    /\ ciclo.antes.modoActual = 5
    /\ modos.modoActual = 2
    /\ modos.autoActivo
    /\ \A i \in DOMAIN leds : leds[i].brillo = 76 /\ leds[i].encendido

\* C16: in a Manual-mode cycle, for each button i in 1..N whose
\* pollPressed() is true exactly output i-1 is toggled once (on at 255 if
\* it was off, off at 0 if it was on), and every other output is unchanged.
C16_ManualPressTogglesItsOutput ==
    [][(EsPasada /\ modos'.modoActual = 5) =>
        \A j \in DOMAIN leds :
            IF (j + 1) \in ciclo'.pulsados
            THEN /\ leds'[j].encendido = ~leds[j].encendido
                 /\ leds'[j].brillo = IF leds[j].encendido THEN 0 ELSE 255
            ELSE leds'[j] = leds[j]]_vars

\* buttons 1 and 2 accepted in one Manual cycle that followed Night mode:
\* LEDs 0 and 1 went off, LED 2 is still at 51
C16_Witness ==
    /\ ciclo.hecho
    /\ modos.modoActual = 5
    /\ ciclo.antes.modoActual = 0
    /\ ciclo.pulsados = {1, 2}
    /\ ~leds[0].encendido /\ leds[0].brillo = 0
    /\ ~leds[1].encendido /\ leds[1].brillo = 0
    /\ leds[2].encendido /\ leds[2].brillo = 51

\* C17: a cycle in Manual mode with no accepted press leaves every output
\* unchanged, including the cycle in which Manual mode is entered.
C17_ManualWithoutPressKeepsOutputs ==
    [][(EsPasada /\ modos'.modoActual = 5 /\ ciclo'.pulsados = {}) =>
        leds' = leds]_vars

\* Manual mode entered from Reading mode with no press: the LEDs stay at 102
C17_Witness ==
    /\ ciclo.hecho
    /\ modos.modoActual = 5
    /\ ciclo.antes.modoActual = 1
    /\ ciclo.pulsados = {}
    /\ \A i \in DOMAIN leds : leds[i].brillo = 102 /\ leds[i].encendido

C28_ModeIsShortcutOrSelector ==
    [][EsPasada =>
        /\ modos'.modoActual = IF ciclo'.p4 THEN 4 ELSE ciclo'.modoPot
        /\ (ciclo.hecho /\ ciclo.p4 /\ ~ciclo'.p4 /\ ciclo'.modoPot # 4) =>
                modos'.modoActual # 4
        /\ 0 \notin ciclo'.pulsados
        /\ ciclo'.p4 =>
                /\ ciclo'.pulsados = {}
                /\ \/ LedsIguales
                   \/ /\ ciclo'.brillo >= 0
                      /\ \A i \in DOMAIN leds : leds'[i] = SetBrillo(leds[i], ciclo'.brillo)]_vars

\* the cycle after an accepted shortcut press, with the selector at Reading
\* and the button still held: the mode is Reading again and forceOn, set by
\* the press, is still set
C28_Witness ==
    /\ ciclo.hecho
    /\ ~ciclo.p4
    /\ ciclo.antes.modoActual = 4
    /\ ciclo.antes.forzarEncendido
    /\ ciclo.modoPot = 1
    /\ modos.modoActual = 1
    /\ modos.forzarEncendido
    /\ botones[0].estadoAnterior = LOW

\* C29: when a shortcut-button press is accepted while the mode is not Auto
\* (the selector, sampled in that cycle, is not at Auto), the controller
\* switches to Auto and forced-on is activated: at the end of that action
\* currentMode == Auto and forceOn == true, whatever forceOn was before.
C29_ShortcutOutsideAutoActivatesForceOn ==
    (ciclo.hecho /\ ciclo.p4 /\ ciclo.modoPot # 4) =>
        /\ modos.modoActual = 4
        /\ modos.forzarEncendido

\* the input devices: light sensor, selector, shortcut button and the
\* manual buttons
Entradas ==
    {<<"ldr", 0>>, <<"pot", 0>>} \cup {<<"boton", i>> : i \in 0..(NumBotones - 1)}

\* number of reads of the device d made by the last pass
Veces(d) == Cardinality({k \in DOMAIN ciclo.muestras : ciclo.muestras[k] = d})

\* C30: in each Controller Loop cycle every input device (light sensor,
\* selector, shortcut button and each of the N manual buttons) is sampled
\* exactly once.
C30_EveryInputSampledOnce ==
    ciclo.hecho => \A d \in Entradas : Veces(d) = 1

\* exactly one LED is on, at brightness 255, and the others are off at 0
UnoEncendido(ls) ==
    \E i \in DOMAIN ls :
        /\ ls[i].encendido /\ ls[i].brillo = 255 /\ ls[i].pwm = 255
        /\ \A j \in DOMAIN ls \ {i} :
               ~ls[j].encendido /\ ls[j].brillo = 0 /\ ls[j].pwm = 0

\* the pass made an animation step
PasoDeFiesta == modos'.ultimoCambioFiesta # modos.ultimoCambioFiesta

\* C31: a party animation step turns all outputs off and then turns on only
\* outputs[partyIndex] before advancing the index, so from the first
\* animation step onward, at the end of every consecutive cycle whose mode
\* is Party, exactly one output is on (at brightness 255) and the uniform
\* brightness plan is never applied in a Party cycle.
C31_PartyCyclesKeepOneOutputOn ==
    [][(EsPasada /\ modos'.modoActual = 3) =>
        /\ ciclo'.brillo = -1
        /\ IF PasoDeFiesta
           THEN /\ UnoEncendido(leds')
                /\ leds'[modos.ledFiestaActual].encendido
                /\ modos'.ledFiestaActual = (modos.ledFiestaActual + 1) % NumLeds
           ELSE /\ leds' = leds
                /\ modos'.ledFiestaActual = modos.ledFiestaActual
        /\ (ciclo.hecho /\ modos.modoActual = 3 /\ UnoEncendido(leds)) =>
               UnoEncendido(leds')]_vars

\* a Party cycle without a step, right after the Party cycle that made the
\* first step: still exactly LED 0 on, at 255
C31_Witness ==
    /\ ciclo.hecho
    /\ ciclo.antes.modoActual = 3
    /\ modos.modoActual = 3
    /\ modos.ledFiestaActual = 1
    /\ millis # Suma32(modos.ultimoCambioFiesta, 2 + 50)
    /\ UnoEncendido(leds)
    /\ leds[0].encendido

\* C35: in every state reachable by the controller loop autoEnabled is
\* true: no operation invoked by the loop ever sets it to false
\* (toggleAutoEnabled is defined but never called), so the autoEnabled gate
\* on fixed-mode brightness never suppresses an update.
C35_AutoEnabledAlwaysTrue ==
    /\ modos.autoActivo
    /\ (ciclo.hecho /\ modos.modoActual \in {0, 1, 2}) =>
            /\ ciclo.brillo = BrilloFijo[modos.modoActual + 1]
            /\ \A i \in DOMAIN leds : leds[i].brillo = ciclo.brillo

\* a Reading cycle after a cycle in which the shortcut press, accepted with
\* the selector away from Auto, called cambiarModoAuto(): the LEDs are at 102
C35_Witness ==
    /\ ciclo.hecho
    /\ ~ciclo.p4
    /\ ciclo.antes.modoActual = 4
    /\ ciclo.antes.forzarEncendido
    /\ modos.modoActual = 1
    /\ modos.autoActivo
    /\ botones[0].ultimoDebounce # Cero32
    /\ \A i \in DOMAIN leds : leds[i].brillo = 102

\* C36: in every cycle the dark/light classification reported in the status
\* equals (reported raw sensor value <= 400), even when the sensor value
\* changes between cycles or within a cycle.
C36_ReportedClassMatchesReportedValue ==
    ciclo.log.hay =>
        (ciclo.log.estaOscuro <=> (ciclo.log.valorLDR <= UMBRAL_LDR))

\* the levels the lines of botones[1..8] can have during a pass, pressed
\* (LOW) or not, whether the pass reads them or not
LineasManual ==
    {[i \in 1..(NumBotones - 1) |-> IF i \in bajos THEN LOW ELSE HIGH] :
        bajos \in SUBSET (1..BotonesProbados)}

\* C37: manual buttons 1..N are polled only in cycles whose mode is Manual:
\* a press and release of a manual button that both occur while the mode
\* is not Manual changes neither that button's debounce state nor any
\* output, in that cycle or any later one (whatever the lines of the manual
\* buttons do during a cycle that is not Manual, step 4 reads none of
\* them, and leaves the buttons and the outputs as they were).
C37_ManualButtonsIgnoredOutsideManual ==
    [][(EsPasada /\ modos'.modoActual # 5) =>
        /\ \A i \in 1..(NumBotones - 1) :
              /\ botones'[i] = botones[i]
              /\ \A k \in DOMAIN ciclo'.muestras : ciclo'.muestras[k] # <<"boton", i>>
        /\ ciclo'.pulsados = {}
        /\ \A lineas \in LineasManual :
              LoopManual(modos', leds, [botones EXCEPT ![0] = botones'[0]], lineas,
                         millis)
                = [botones |-> [botones EXCEPT ![0] = botones'[0]], leds |-> leds,
                   pulsados |-> {}]]_vars

\* a Night cycle after a Manual cycle in which button 1 was pressed: its
\* last polled level is still LOW and its press time the one of that cycle
C37_Witness ==
    /\ ciclo.hecho
    /\ modos.modoActual = 0
    /\ ciclo.antes.modoActual = 5
    /\ botones[1].estadoAnterior = LOW
    /\ botones[1].ultimoDebounce # Cero32
    /\ \A i \in DOMAIN leds : leds[i].brillo = 51

\* the pass is the first in Manual mode after another mode, and it reads
\* the line of botones[i] LOW after a last polled level of HIGH
EntraEnManualPulsado(i) ==
    /\ EsPasada
    /\ modos.modoActual # 5
    /\ modos'.modoActual = 5
    /\ botones[i].estadoAnterior = HIGH
    /\ botones'[i].estadoAnterior = LOW

\* C38: if a manual button's line is already LOW in the first cycle in
\* which the mode is Manual (it was pressed while another mode was active,
\* its last polled level was HIGH and more than 50 ms have passed since its
\* last accepted press, if it ever had one), that first Manual cycle reports
\* a press and toggles the corresponding output.
C38_HeldButtonTogglesOnEnteringManual ==
    [][\A i \in 1..(NumBotones - 1) :
        (/\ EntraEnManualPulsado(i)
         /\ \/ botones[i].ultimoDebounce = Cero32
            \/ Mayor32(Resta32(millis, botones[i].ultimoDebounce), 50)) =>
            /\ i \in ciclo'.pulsados
            /\ leds'[i - 1].encendido = ~leds[i - 1].encendido]_vars

\* C39: forceOn changes only when a shortcut-button press is accepted, and
\* then it flips exactly once: selector-driven mode changes, decide calls,
\* party steps and manual toggles leave it unchanged, so a forceOn set
\* earlier is still in effect (all outputs at 255 regardless of the sensor)
\* whenever the selector later brings the mode back to Auto.
C39_ForceOnChangesOnlyOnShortcut ==
    [][EsPasada =>
        /\ modos'.forzarEncendido =
              (IF ciclo'.p4 THEN ~modos.forzarEncendido ELSE modos.forzarEncendido)
        /\ (modos'.modoActual = 4 /\ modos'.forzarEncendido) =>
              /\ ciclo'.brillo = 255
              /\ \A i \in DOMAIN leds :
                    leds'[i].brillo = 255 /\ leds'[i].pwm = 255 /\ leds'[i].encendido]_vars

\* forceOn was set two cycles ago, the selector took the mode to Party and
\* now brings it back to Auto with the sensor in the light: all LEDs at 255
C39_Witness ==
    /\ ciclo.hecho
    /\ ~ciclo.p4
    /\ ciclo.antes.modoActual = 3
    /\ ciclo.antes.forzarEncendido
    /\ ciclo.modoPot = 4
    /\ ciclo.valorLDR = UMBRAL_LDR + 1
    /\ modos.modoActual = 4
    /\ modos.forzarEncendido
    /\ \A i \in DOMAIN leds : leds[i].brillo = 255 /\ leds[i].encendido

-----------------------------------------------------------------------------
(* SpecFiestaViva: loop() running with the selector held at Party and the  *)
(* shortcut button not pressed, so that the mode stays Party, for the      *)
(* claims about what the animation does in the long run. The passes are    *)
(* weakly fair: loop() is called again as soon as it returns.              *)

\* passes of one run: a full turn of the chase (a step every 4 passes of
\* 52 ms) and the step that lights LED 0 again
MaxCiclosFiesta == 34

\* a raw reading of the selector in the bucket of Party
LecturasPotFiesta == {2048}

PasadaFiesta == PasadaCon(LecturasPotFiesta, {HIGH}, MaxCiclosFiesta)

NextFiestaViva == PasadaFiesta

InitFiestaViva == \E m0 \in RelojesIniciales : InitObjetos(PinesBotones[1], m0)

SpecFiestaViva ==
    InitFiestaViva /\ [][NextFiestaViva]_vars /\ WF_vars(PasadaFiesta)

\* the mode is Party and LED i is the one LED on
SoloEncendido(i) ==
    modos.modoActual = 3 /\ UnoEncendido(leds) /\ leds[i].encendido

\* C32: while the mode stays Party and cycles keep running with the clock
\* advancing, the animation is a cyclic chase: every output is turned on
\* (again and again: from any point of the run with a turn of passes still
\* to come), and successive lit outputs follow index order i, i+1, ...,
\* N-1, 0, ... with no output skipped or repeated.
C32_PartyIsACyclicChase ==
    /\ \A i \in 0..(NumLeds - 1) :
          (ciclo.hecho /\ modos.modoActual = 3 /\ pasos <= 1) ~> SoloEncendido(i)
    /\ \A i \in 0..(NumLeds - 1) :
          (SoloEncendido(i) /\ pasos + 4 <= MaxCiclosFiesta) ~>
              SoloEncendido((i + 1) % NumLeds)
    /\ [][\A i \in 0..(NumLeds - 1) :
            (EsPasada /\ SoloEncendido(i) /\ modos'.modoActual = 3) =>
                IF PasoDeFiesta
                THEN SoloEncendido((i + 1) % NumLeds)'
                ELSE SoloEncendido(i)']_vars

\* the chase has gone round: LED 7 was lit, and this pass lit LED 0 again
C32_Witness ==
    /\ ciclo.hecho
    /\ ciclo.antes.modoActual = 3
    /\ SoloEncendido(0)
    /\ modos.ledFiestaActual = 1
    /\ modos.ultimoCambioFiesta = Resta32(millis, [hi |-> 0, lo |-> 2 + 50])
    /\ pasos > 4 * NumLeds

-----------------------------------------------------------------------------
(* SpecAutoActivo: loop() with the selector on the fixed modes and Auto,  *)
(* and SistemaModos::toggleAuto() called between passes. loop() itself    *)
(* never calls toggleAuto(), so autoActivo == false occurs only here.     *)

\* raw readings of the selector: Night, Reading, Relax, Auto
LecturasPotFijos == {0, 683, 1365, 2730}

PasadaFijos == Pasada(LecturasPotFijos)

\* modos.toggleAuto() between two passes
LlamarToggleAuto ==
    /\ modos' = ToggleAuto(modos)
    /\ UNCHANGED <<leds, botones, millis, reloj, call, prev, aceptados, fase,
                   numTrue, pasos, fiesta, ciclo, enPrueba, arranque, flancoRechazado, potModos>>

NextAutoActivo == PasadaFijos \/ LlamarToggleAuto

SpecAutoActivo == Init /\ [][NextAutoActivo]_vars

\* C14: the fixed-mode and Auto-mode brightness is written to the outputs
\* only when currentMode == Auto or autoEnabled == true: in a cycle whose
\* mode is Night, Reading or Relax with autoEnabled == false, no output's
\* brightness or isOn changes.
C14_GateOnAutoOrAutoActivo ==
    [][(EsPasada /\ modos'.modoActual \in {0, 1, 2} /\ ~modos'.autoActivo) =>
        LedsIguales]_vars

\* a pass in Night mode with autoActivo off, after a pass in Auto mode that
\* lit the LEDs: they are still at 255
C14_Witness ==
    /\ ciclo.hecho
    /\ ciclo.antes.modoActual = 4
    /\ modos.modoActual = 0
    /\ ~modos.autoActivo
    /\ ciclo.brillo = 51
    /\ \A i \in DOMAIN leds : leds[i].brillo = 255 /\ leds[i].encendido

-----------------------------------------------------------------------------
(* SpecVuelta: the three elapsed-time gates (presionado, manejarModoFiesta, *)
(* getBrilloPorModo in Auto mode) polled while the millisecond counter      *)
(* wraps, 60 ms after the start of the run.                                 *)

\* number of clock advances in one run of the wrap specification
MaxPasosVuelta == 3

\* ms between two calls: each gate's interval and one more (the debounce
\* interval in two halves, so that a release can be polled between)
DeltasVuelta == {25, 26, 200, 201, 1000, 1001}

\* the counter 60 ms before it wraps
RelojVuelta == [hi |-> Base16 - 1, lo |-> Base16 - 60]

AvanzarVuelta == AvanzarEn(DeltasVuelta, MaxPasosVuelta)

\* the devices with an elapsed-time gate: a button, the party animation,
\* the Auto decision
ConPuerta == {"boton", "fiesta", "auto"}

NextVuelta ==
    \/ AvanzarVuelta
    \/ enPrueba = "boton" /\ BotonPresionado
    \/ enPrueba = "fiesta" /\ FiestaPaso
    \/ enPrueba = "auto" /\ ModosCambiarModoAuto
    \/ enPrueba = "auto" /\ ModosGetBrillo

InitVuelta ==
    \E d \in ConPuerta : InitObjetosDe(PinesBotones[1], RelojVuelta, d, ArranqueHecho)

SpecVuelta == InitVuelta /\ [][NextVuelta]_vars

\* real ms since the start of the run at which the counter shows x
\* (the run is shorter than 2^16 ms)
RealDe(x) ==
    IF x.hi = Base16 - 1 THEN x.lo - (Base16 - 60) ELSE x.hi * Base16 + x.lo + 60

\* real ms between the timestamp `marca` and the last call
RealDesde(marca) == RealDe(call.t) - RealDe(marca)

\* C21: all elapsed-time gates (50 ms debounce, 200 ms party step, 1000 ms
\* hysteresis) compute elapsed time as (now - last) modulo 2^32 on the
\* wrapping millisecond counter: a gate whose reference timestamp was taken
\* in the run, before or after the counter wrapped, is open exactly when
\* the real time elapsed since the timestamp exceeds its interval.
C21_GatesMeasureRealElapsedTime ==
    /\ RealDe(millis) = reloj
    /\ (call.name = "presionado" /\ call.antes.ultimoDebounce # Cero32) =>
            (call.retB <=> /\ call.antes.estadoAnterior = HIGH
                           /\ call.arg = LOW
                           /\ RealDesde(call.antes.ultimoDebounce) > 50)
    /\ (call.name = "manejarModoFiesta" /\ call.antes.ultimoCambioFiesta # Cero32) =>
            (call.retB <=> RealDesde(call.antes.ultimoCambioFiesta) > 200)
    /\ (/\ call.name = "getBrilloPorModo"
        /\ call.antes.modoActual = 4
        /\ call.antes.ultimoCambioLED # Cero32) =>
            (modos # call.antes <=>
                /\ DebeEncender # call.antes.estadoAutoAnterior
                /\ RealDesde(call.antes.ultimoCambioLED) > 1000)

\* a press accepted 51 ms after the last one, whose timestamp was taken
\* 34 ms before the counter wrapped
C21_Witness ==
    /\ call.name = "presionado"
    /\ call.retB
    /\ call.antes.ultimoDebounce.hi = Base16 - 1
    /\ call.t.hi = 0
    /\ RealDesde(call.antes.ultimoDebounce) = 51

-----------------------------------------------------------------------------
(* More about Potenciometro::getModo *)

\* C25: for every raw reading r in 0..4095, selectedMode() equals
\* min(5, floor(6*r / 4095)): the reading is mapped linearly into six
\* buckets plus a seventh value 6 which is clamped to 5, and each of the six
\* modes 0..5 is selected by some reading.
C25_GetModoIsClampedFloor ==
    /\ call.name = "getModo" =>
            LET suelo == (6 * call.arg) \div 4095
            IN  call.ret = IF suelo < 5 THEN suelo ELSE 5
    /\ \A modo \in 0..5 : \E r \in Fronteras : GetModo(r) = modo

\* readings 682 and 683 are the last of mode 0 and the first of mode 1
C25_Witness ==
    /\ call.name = "getModo"
    /\ prev.name = "getModo"
    /\ prev.arg = 682
    /\ prev.ret = 0
    /\ call.arg = 683
    /\ call.ret = 1

-----------------------------------------------------------------------------
(* SpecLDR: leer() and esOscuro() of SensorLDR called on any reading *)

\* readings of one run: any first reading, then the ends of the scale and
\* both sides of the threshold
LecturasSensor == IF call = NoCall THEN LecturasADC ELSE LecturasLDR

LdrLeerLlamada ==
    \E lectura \in LecturasSensor :
        /\ call' = Call("leer", 0, lectura, LdrLeer(lectura), FALSE, millis, 0)
        /\ UNCHANGED <<leds, botones, modos, millis, reloj, prev, aceptados, fase,
                       numTrue, pasos, fiesta, ciclo, enPrueba, arranque, flancoRechazado, potModos>>

LdrEsOscuro ==
    \E lectura \in LecturasSensor :
        /\ call' = Call("esOscuro", 0, lectura, 0, EsOscuro(lectura), millis, 0)
        /\ UNCHANGED <<leds, botones, modos, millis, reloj, prev, aceptados, fase,
                       numTrue, pasos, fiesta, ciclo, enPrueba, arranque, flancoRechazado, potModos>>

NextLDR == LdrLeerLlamada \/ LdrEsOscuro

InitLDR == InitObjetos(PinesBotones[1], [hi |-> 0, lo |-> TrasSetup])

SpecLDR == InitLDR /\ [][NextLDR]_vars

-----------------------------------------------------------------------------
(* class PantallaLCD and SpecLCD: mostrarInfo() called with any status.    *)
(* A text is the sequence of its characters.                                *)

\* the characters of nombresModos[i]
LetrasModos ==
    [i \in 0..5 |->
        << <<"N", "O", "C", "H", "E">>,
           <<"L", "E", "C", "T", "U", "R", "A">>,
           <<"R", "E", "L", "A", "J">>,
           <<"F", "I", "E", "S", "T", "A">>,
           <<"A", "U", "T", "O">>,
           <<"M", "A", "N", "U", "A", "L">> >>[i + 1]]

Cifra(d) == <<"0", "1", "2", "3", "4", "5", "6", "7", "8", "9">>[d + 1]

RECURSIVE Decimal(_)
\* String(int): the decimal digits of n, with a sign when n < 0
Decimal(n) ==
    IF n < 0 THEN <<"-">> \o Decimal(0 - n)
    ELSE IF n < 10 THEN <<Cifra(n)>>
    ELSE Decimal(n \div 10) \o <<Cifra(n % 10)>>

\* the display after PantallaLCD::iniciar(), which setup() runs before loop()
PantallaIniciada == [lcdInicializado |-> TRUE]

\* mutant: escribirLinea() stops one character later
EscribirLineaHasta17(texto) ==
    [i \in 1..(IF Len(texto) < 17 THEN Len(texto) ELSE 17) |-> texto[i]]

\* void escribirLinea(String texto, col, fila): the characters sent as data,
\*   for (i = 0; i < texto.length() && i < 16; i++) enviarByte(texto.charAt(i), 1)
EscribirLinea(texto) ==
    [i \in 1..(IF Len(texto) < 16 THEN Len(texto) ELSE 16) |-> texto[i]]

\* void mostrarInfo(int valorLDR, String modo, int ledsEncendidos): the
\* characters sent to line 0 and to line 1 (none when not initialised)
MostrarInfo(lcd, valorLDR, modo, ledsEncendidos) ==
    IF ~lcd.lcdInicializado THEN [linea1 |-> <<>>, linea2 |-> <<>>]
    ELSE [linea1 |-> EscribirLinea(<<"L", "D", "R", ":">> \o Decimal(valorLDR)
                                   \o <<" ", " ", "L", "E", "D", ":">>
                                   \o Decimal(ledsEncendidos) \o <<"/", "8">>),
          linea2 |-> EscribirLinea(<<"M", "o", "d", "o", " ">> \o modo)]

\* sensor values shown: the least and the greatest of each number of digits
LecturasPantalla == {0, 9, 10, 99, 100, 999, 1000, ADC_MAX}

\* lcd.mostrarInfo(valorLDR, modos.getModoActual(), ledsOn), as loop() calls it
LcdMostrarInfo ==
    \E valorLDR \in LecturasPantalla, modo \in 0..5, ledsOn \in 0..NumLeds :
        /\ call' = Call("mostrarInfo", 0, <<valorLDR, modo, ledsOn>>,
                        MostrarInfo(PantallaIniciada, valorLDR, LetrasModos[modo],
                                    ledsOn),
                        FALSE, millis, 0)
        /\ UNCHANGED <<leds, botones, modos, millis, reloj, prev, aceptados, fase,
                       numTrue, pasos, fiesta, ciclo, enPrueba, arranque, flancoRechazado, potModos>>

NextLCD == LcdMostrarInfo

InitLCD == InitObjetos(PinesBotones[1], [hi |-> 0, lo |-> TrasSetup])

SpecLCD == InitLCD /\ [][NextLCD]_vars

\* the first 16 characters of a text
Primeros16(texto) == SubSeq(texto, 1, IF Len(texto) < 16 THEN Len(texto) ELSE 16)

\* C23: showStatus sends at most 16 characters per display line for every
\* sensor value, mode name and on-count: line 1 is the first 16 characters
\* of "LDR:<raw>  LED:<count>/<N>" and line 2 the first 16 characters of
\* "Modo <modeName>".
C23_LinesAreFirst16Characters ==
    call.name = "mostrarInfo" =>
        /\ Len(call.ret.linea1) <= 16
        /\ Len(call.ret.linea2) <= 16
        /\ call.ret.linea1 =
                Primeros16(<<"L", "D", "R", ":">> \o Decimal(call.arg[1])
                           \o <<" ", " ", "L", "E", "D", ":">>
                           \o Decimal(call.arg[3]) \o <<"/", "8">>)
        /\ call.ret.linea2 =
                Primeros16(<<"M", "o", "d", "o", " ">> \o LetrasModos[call.arg[2]])

\* "LDR:4095  LED:8/8" has 17 characters: the display gets "LDR:4095  LED:8/"
C23_Witness ==
    /\ call.name = "mostrarInfo"
    /\ call.arg = <<ADC_MAX, 1, 8>>
    /\ call.ret.linea1 = <<"L", "D", "R", ":", "4", "0", "9", "5", " ", " ",
                            "L", "E", "D", ":", "8", "/">>
    /\ call.ret.linea2 = <<"M", "o", "d", "o", " ", "L", "E", "C", "T", "U", "R", "A">>

-----------------------------------------------------------------------------
(* SpecArranque: the program from reset: setup() step by step, then loop() *)

\* Componente* componentes[30]
CapacidadRegistro == 30

\* setup(), steps 1 to 3: new LED x 8, apagar() on each, new Boton x 9
SetupCrear ==
    /\ arranque.fase = "crear"
    /\ leds' = [i \in 0..(NumLeds - 1) |-> Apagar(LedNuevo)]
    /\ botones' = [i \in 0..(NumBotones - 1) |-> BotonNuevo(PinesBotones[i + 1])]
    /\ arranque' = [arranque EXCEPT !.fase = "registrar"]
    /\ UNCHANGED <<modos, millis, reloj, call, prev, aceptados, fase, numTrue, pasos,
                   fiesta, ciclo, enPrueba, flancoRechazado, potModos>>

\* setup(), step 4: componentes[numComponentes++] = the next device
Registrar(a) ==
    LET n == Len(a.componentes)
    IN  [a EXCEPT !.componentes = Append(@, RegistroDeSetup[n + 1]),
                  !.fase = IF n + 1 = Len(RegistroDeSetup) THEN "iniciar" ELSE @]

SetupRegistrar ==
    /\ arranque.fase = "registrar"
    /\ arranque' = Registrar(arranque)
    /\ UNCHANGED <<leds, botones, modos, millis, reloj, call, prev, aceptados, fase,
                   numTrue, pasos, fiesta, ciclo, enPrueba, flancoRechazado, potModos>>

\* position in RegistroDeSetup of the device d
NumeroDe(d) == CHOOSE k \in DOMAIN RegistroDeSetup : RegistroDeSetup[k] = d

\* mutant: the loop over componentes[] skips the display
IniciarSinPantalla(a) ==
    LET d == a.componentes[a.i + 1]
    IN  [a EXCEPT !.iniciados[NumeroDe(d)] = IF d[1] = "lcd" THEN @ ELSE @ + 1,
                  !.i = @ + 1,
                  !.fase = IF a.i + 1 = Len(a.componentes) THEN "listo" ELSE @]

\* setup(), step 5: componentes[i]->iniciar() for the next i < numComponentes
IniciarSiguiente(a) ==
    LET d == a.componentes[a.i + 1]
    IN  [a EXCEPT !.iniciados[NumeroDe(d)] = @ + 1,
                  !.i = @ + 1,
                  !.fase = IF a.i + 1 = Len(a.componentes) THEN "listo" ELSE @]

\* one iniciar() call; that of the display takes the time of its delays
SetupIniciar ==
    /\ arranque.fase = "iniciar"
    /\ arranque.i < Len(arranque.componentes)
    /\ arranque' = IniciarSiguiente(arranque)
    /\ LET espera == IF arranque.componentes[arranque.i + 1][1] = "lcd"
                     THEN TrasSetup ELSE 0
       IN  /\ millis' = Suma32(millis, espera)
           /\ reloj' = reloj + espera
    /\ leds' = LET d == arranque.componentes[arranque.i + 1]
               IN  IF d[1] = "led" THEN [leds EXCEPT ![d[2]] = LedIniciar(@)] ELSE leds
    /\ UNCHANGED <<botones, modos, call, prev, aceptados, fase, numTrue, pasos,
                   fiesta, ciclo, enPrueba, flancoRechazado, potModos>>

\* loop() runs once setup() has returned
LoopTrasSetup == arranque.fase = "listo" /\ Loop

NextArranque == SetupCrear \/ SetupRegistrar \/ SetupIniciar \/ LoopTrasSetup

InitArranque == InitObjetosDe(PinesBotones[1], Cero32, "todos", ArranqueNuevo)

SpecArranque == InitArranque /\ [][NextArranque]_vars

\* the devices of the system: 8 outputs, sensor, selector, display, 9 buttons
Dispositivos ==
    {<<"led", k>> : k \in 0..7} \cup {<<"ldr", 0>>, <<"pot", 0>>, <<"lcd", 0>>}
        \cup {<<"boton", k>> : k \in 0..8}

\* number of iniciar() calls made on the device d
Iniciado(d) == arranque.iniciados[NumeroDe(d)]

\* C24: during startup initialize() is called exactly once on every device
\* (8 outputs, sensor, selector, display, 9 buttons), and the registry of
\* devices never holds more than its capacity of 30 entries.
C24_EachDeviceInitialisedOnce ==
    /\ Len(arranque.componentes) <= CapacidadRegistro
    /\ \A d \in Dispositivos : Iniciado(d) <= 1
    /\ arranque.fase = "listo" => \A d \in Dispositivos : Iniciado(d) = 1
    /\ arranque.fase # "iniciar" =>
            \A d \in Dispositivos : Iniciado(d) = (IF arranque.fase = "listo" THEN 1 ELSE 0)

\* setup() has returned and loop() has run: 20 devices registered, each
\* initialised once
C24_Witness ==
    /\ arranque.fase = "listo"
    /\ ciclo.hecho
    /\ Len(arranque.componentes) = 20
    /\ \A d \in Dispositivos : Iniciado(d) = 1

-----------------------------------------------------------------------------
(* SpecPotModos: the mode-selection sketch (part_003). Its Potenciometro    *)
(* calibrates the raw reading before mapping it to a mode, and its loop()   *)
(* shows the name of the mode on the display when the mode changes.         *)

\* const int MIN_VALOR / MAX_VALOR
MIN_VALOR == 208

MAX_VALOR == 4095

\* map() of the Arduino core on operands of either sign: the division of C
\* truncates towards zero
MapConSigno(x, in_min, in_max, out_min, out_max) ==
    LET n == (x - in_min) * (out_max - out_min)
        d == in_max - in_min
    IN  (IF n >= 0 THEN n \div d ELSE -((-n) \div d)) + out_min

\* int getModo() of the sketch: `valor` is what leer() returns
\*   ajustado = map(valor, MIN_VALOR, MAX_VALOR, 0, 4095);
\*   ajustado = constrain(ajustado, 0, 4095);
\*   return map(ajustado, 0, 4095, 0, 6);
GetModoCalibrado(valor) ==
    MapConSigno(Constrain(MapConSigno(valor, MIN_VALOR, MAX_VALOR, 0, 4095), 0, 4095),
                0, 4095, 0, 6)

\* String getNombreModo(): the switch over getModo()
GetNombreModo(valor) ==
    LET modo == GetModoCalibrado(valor)
    IN  CASE modo = 0 -> "NOCHE"
          [] modo = 1 -> "LECTURA"
          [] modo = 2 -> "RELAJACION"
          [] modo = 3 -> "FIESTA"
          [] modo = 4 -> "AUTOMATICO"
          [] modo = 5 -> "MANUAL"
          [] OTHER -> "DESCONOCIDO"

\* bool cambioModo(): the Potenciometro after the call and the value returned
CambioModo(p, valor) ==
    LET modoActual == GetModoCalibrado(valor)
    IN  IF modoActual # p.ultimoModo
        THEN [p |-> [p EXCEPT !.ultimoModo = modoActual], ret |-> TRUE]
        ELSE [p |-> p, ret |-> FALSE]

\* readings taken by loop(): the ends of the scale, both sides of MIN_VALOR
\* and readings inside each of the modes
LecturasPotModos == {0, 207, 208, 209, 800, 1500, 2200, 2800, 3500, 4094, 4095}

\* setup(): pantalla.mostrarModo(pot.getNombreModo()), on any raw reading
PotModosSetup ==
    /\ ~potModos.listo
    /\ \E valor \in LecturasADC :
        /\ potModos' = [potModos EXCEPT !.listo = TRUE,
                                        !.pantalla = GetNombreModo(valor)]
        /\ call' = Call("getNombreModo", 0, valor, GetModoCalibrado(valor), FALSE,
                        millis, 0)
    /\ UNCHANGED <<leds, botones, modos, millis, reloj, prev, aceptados, fase, numTrue, pasos,
                   fiesta, ciclo, enPrueba, arranque, flancoRechazado>>

\* loop(): if (pot.cambioModo()) pantalla.mostrarModo(pot.getNombreModo());
\* cambioModo() and getNombreModo() each read the pin
PotModosLoop ==
    /\ potModos.listo
    /\ \E valor \in LecturasPotModos, segunda \in LecturasPotModos :
        \E r \in {CambioModo(potModos, valor)} :
            IF r.ret
            THEN /\ potModos' = [r.p EXCEPT !.pantalla = GetNombreModo(segunda)]
                 /\ call' = Call("getNombreModo", 0, segunda, GetModoCalibrado(segunda),
                                 TRUE, millis, 0)
            ELSE /\ potModos' = r.p
                 /\ call' = Call("cambioModo", 0, valor, GetModoCalibrado(valor), FALSE,
                                 millis, 0)
    /\ UNCHANGED <<leds, botones, modos, millis, reloj, prev, aceptados, fase, numTrue, pasos,
                   fiesta, ciclo, enPrueba, arranque, flancoRechazado>>

NextPotModos == PotModosSetup \/ PotModosLoop

InitPotModos == InitObjetos(PinesBotones[1], Cero32)

SpecPotModos == InitPotModos /\ [][NextPotModos]_vars

\* C34: in the potentiometer mode-selection sketch, getModo() returns an
\* index in 0..5 for every raw reading in 0..4095, so getNombreModo() always
\* returns one of the six mode names and never the fallback "DESCONOCIDO".
C34_ModeNameIsNeverUnknown ==
    /\ call.name \in {"getNombreModo", "cambioModo"} => call.ret \in 0..5
    /\ potModos.pantalla # "DESCONOCIDO"
    /\ potModos.ultimoModo \in -1..5

=============================================================================
